-------------------------- MODULE PrerenderProofs --------------------------
(***************************************************************************)
(* Theorems of Prerender for every set of jobs and tiles.  Two renders may *)
(* pass the gate of a job, and the second one then frees what may belong   *)
(* to another job by now: what is proved holds for every number of workers *)
(* while no block is allocated twice, and for one worker in any case.      *)
(***************************************************************************)
EXTENDS Prerender, FiniteSetTheorems, TLAPS

(* No block that was freed is allocated again. *)
FreshBlocks == \A j, k \in Jobs : Started(j) /\ stats[j] = stats[k] => j = k
OneWorker   == \A v, w \in Workers : v = w
JobsHaveZooms == \A j \in Jobs : Len(Batches[j]) > 0

(* How far the tasks have come: a task is known from its post on; a        *)
(* calculation has counted its tiles, or has looked at the next batch; a   *)
(* render has counted itself.                                              *)
Known == queued \cup running \cup done
Reached(t, pcs) ==
  t \in done \/ \E w \in Workers : exec[w].pc \in pcs /\ exec[w].task = t
OfType(type) == {t \in Tasks : t.type = type}

AfterCount == {"postRenders", "nextBatch", "finishZoom", "return"}
InGate     == {"loadRemain", "loadCounts", "remove", "destroy"}
AfterAdd   == InGate \cup {"commit", "return"}
SetUp    == {t \in OfType("setup") : Reached(t, {"postCalcs"})}
Counted  == {t \in OfType("calc") : Reached(t, AfterCount)}
Returned == {t \in OfType("calc") : Reached(t, {"return"})}
Added    == {t \in OfType("render") : Reached(t, AfterAdd)}

Batch(c) == Batches[c.job][c.zoom][c.batch]
LastCalc(j, z) == CalcTask(j, z, Len(Batches[j][z]))
CountedOf(j) == UNION {Elems(Batch(c)) : c \in {d \in Counted : d.job = j}}
Remaining(j) == {z \in Zooms(j) : LastCalc(j, z) \notin Returned}
AllZooms(j)  == Remaining(j) = {}
Over(j)      == Complete(j) /\ AllZooms(j)
Alive(j)     == Started(j) /\ owner[stats[j]] = j

(* What a worker is doing. *)
PcsOf == [setup  |-> {"create", "postCalcs"},
          calc   |-> {"count"} \cup AfterCount,
          render |-> {"exists", "render", "addCurrent"} \cup AfterAdd]
Working ==
  [pc : {"create", "postCalcs", "count", "exists", "render", "addCurrent"}
          \cup AfterCount \cup AfterAdd, task : Tasks, i : Nat \ {0}]
ExecInv ==
  /\ exec \in [Workers -> {Idle} \cup Working]
  /\ \A w \in Workers : Active(w) =>
       /\ exec[w].task \in running /\ exec[w].pc \in PcsOf[exec[w].task.type]
       /\ exec[w].pc = "nextBatch" => ~LastBatch(exec[w].task)
       /\ exec[w].pc = "finishZoom" => LastBatch(exec[w].task)
  /\ \A t \in running : \E w \in Workers : Active(w) /\ exec[w].task = t
  /\ \A v, w \in Workers :
       Active(v) /\ Active(w) /\ exec[v].task = exec[w].task => v = w
  /\ Known \subseteq Tasks
  /\ queued \cap running = {} /\ queued \cap done = {} /\ running \cap done = {}

(* Tasks come after those that post them. *)
Conforms(t) ==
  /\ t.type = "calc" =>
       /\ Started(t.job)
       /\ \A b \in 1..t.batch - 1 : CalcTask(t.job, t.zoom, b) \in Counted
  /\ t.type = "render" => t.tile \in CountedOf(t.job)
TaskInv ==
  /\ \A j \in Jobs : Started(j) <=> SetupTask(j) \in SetUp
  /\ \A t \in Known : Conforms(t)
  /\ \A r \in OfType("render") : r.tile \in rendered <=> r \in Added

(* The counters of a job that has not been freed. *)
CountersInv ==
  /\ IsFiniteSet(rendered)
  /\ \A j \in Jobs :
       /\ IsFiniteSet(CountedOf(j))
       /\ Alive(j) =>
            counters[stats[j]] = [num    |-> Cardinality(CountedOf(j)),
                                  cur    |-> Cardinality(rendered \cap TilesOf(j)),
                                  remain |-> Cardinality(Remaining(j))]

(* A job keeps its counters until it is over, and the gate tells.          *)
OwnerInv ==
  /\ \A j \in Jobs : Started(j) => owner[stats[j]] = j \/ Over(j)
  /\ \A b \in Blocks : owner[b] # "free" => stats[owner[b]] = b

GateInv ==
  \A w \in Workers :
    /\ At(w, "loadCounts") => AllZooms(Job(w))
    /\ exec[w].pc \in {"remove", "destroy"} => Over(Job(w))
    /\ At(w, "destroy") => Ptr(w) \notin Elems(prerenders)

ListInv ==
  /\ \A m, n \in DOMAIN prerenders : prerenders[m] = prerenders[n] => m = n
  /\ \A b \in Elems(prerenders) : owner[b] # "free"
  /\ \A j \in Jobs : Started(j) /\ ~Over(j) => stats[j] \in Elems(prerenders)
  /\ job_stats # "none" => reading # 0 /\ job_stats \in Elems(prerenders)

Inv ==
  TypeOK /\ ExecInv /\ TaskInv /\ CountersInv /\ OwnerInv /\ GateInv /\ ListInv

(* Nobody frees, or takes off the list, the counters of another job. *)
OwnBlock ==
  \A w \in Workers :
    exec[w].pc \in {"remove", "destroy"} => owner[Ptr(w)] \in {Job(w), "free"}

(* What is posted is known, or still to be posted by the worker at it. *)
ZoomsPosted ==
  \A j \in Jobs : \A z \in Zooms(j) : Started(j) =>
    \/ CalcTask(j, z, 1) \in Known
    \/ \E w \in Workers : At(w, "postCalcs") /\ exec[w].task = SetupTask(j) /\ exec[w].i <= z
RendersPosted ==
  \A c \in Counted : \A i \in DOMAIN Batch(c) :
    \/ RenderTask(c.job, Batch(c)[i]) \in Known
    \/ \E w \in Workers : At(w, "postRenders") /\ exec[w].task = c /\ exec[w].i <= i
BatchesPosted ==
  \A j \in Jobs : \A z \in Zooms(j) : CalcTask(j, z, 1) \in Known =>
    \E b \in DOMAIN Batches[j][z] :
      /\ CalcTask(j, z, b) \in Known
      /\ CalcTask(j, z, b) \in Returned => b = Len(Batches[j][z])
PostInv ==
  /\ \A w \in Workers : exec[w].pc \in {"create", "count"} => exec[w].i = 1
  /\ ZoomsPosted /\ RendersPosted /\ BatchesPosted

(* One worker: nobody else frees the counters a render looks at, nobody    *)
(* renders what a calculation is still posting, and whoever completes a    *)
(* job goes on to free it.                                                 *)
OneAlive == \A w \in Workers : exec[w].pc \in InGate => owner[Ptr(w)] = Job(w)
OneOver ==
  /\ \A w \in Workers : Active(w) /\ exec[w].task.type = "calc" =>
       Elems(BatchOf(w)) \cap rendered = {}
  /\ \A j \in Jobs : Alive(j) /\ Over(j) =>
       \E w \in Workers : exec[w].pc \in InGate /\ Job(w) = j

-----------------------------------------------------------------------------
(* The data: every tile has one place. *)
LEMMA JobData ==
  ASSUME NEW j \in Jobs
  PROVE  /\ Len(Batches[j]) \in Nat /\ Zooms(j) = 1..Len(Batches[j])
         /\ \A z \in Zooms(j) :
              /\ Batches[j][z] \in Seq(Seq(Tiles))
              /\ Len(Batches[j][z]) \in Nat \ {0}
              /\ DOMAIN Batches[j][z] = 1..Len(Batches[j][z])
              /\ Len(Batches[j][z]) \in DOMAIN Batches[j][z]
              /\ 1 \in DOMAIN Batches[j][z]
<1>1. Batches[j] \in Seq(Seq(Seq(Tiles)))
  BY PrerenderAssumption
<1>2. Len(Batches[j]) \in Nat /\ Zooms(j) = 1..Len(Batches[j])
  BY <1>1 DEF Zooms
<1>. SUFFICES ASSUME NEW z \in Zooms(j)
              PROVE  /\ Batches[j][z] \in Seq(Seq(Tiles))
                     /\ Len(Batches[j][z]) \in Nat \ {0}
                     /\ DOMAIN Batches[j][z] = 1..Len(Batches[j][z])
                     /\ Len(Batches[j][z]) \in DOMAIN Batches[j][z]
                     /\ 1 \in DOMAIN Batches[j][z]
  BY <1>2
<1>3. Batches[j][z] \in Seq(Seq(Tiles))
  BY <1>1, <1>2
<1>4. Len(Batches[j][z]) > 0
  BY PrerenderAssumption
<1>. QED  BY <1>3, <1>4

LEMMA BatchData ==
  ASSUME NEW j \in Jobs, NEW z \in Zooms(j), NEW b \in DOMAIN Batches[j][z]
  PROVE  /\ Batches[j][z][b] \in Seq(Tiles)
         /\ Len(Batches[j][z][b]) \in Nat \ {0}
         /\ DOMAIN Batches[j][z][b] = 1..Len(Batches[j][z][b])
<1>1. Batches[j][z][b] \in Seq(Tiles)
  BY JobData
<1>2. Batches[j][z][b] \in Elems(Batches[j][z])
  BY DEF Elems
<1>3. Len(Batches[j][z][b]) > 0
  BY <1>2, PrerenderAssumption
<1>. QED  BY <1>1, <1>3

(* The kinds of tasks. *)
LEMMA TaskFields ==
  /\ \A j : SetupTask(j).type = "setup" /\ SetupTask(j).job = j
  /\ \A j, z, b : LET c == CalcTask(j, z, b) IN
       c.type = "calc" /\ c.job = j /\ c.zoom = z /\ c.batch = b
  /\ \A j, t : LET r == RenderTask(j, t) IN
       r.type = "render" /\ r.job = j /\ r.tile = t
BY DEF SetupTask, CalcTask, RenderTask

LEMMA TaskKinds ==
  /\ \A j \in Jobs : SetupTask(j) \in OfType("setup")
  /\ \A j \in Jobs : \A z \in Zooms(j) : \A b \in DOMAIN Batches[j][z] :
       CalcTask(j, z, b) \in OfType("calc")
  /\ \A j \in Jobs : \A t \in TilesOf(j) : RenderTask(j, t) \in OfType("render")
<1>1. \A j \in Jobs : SetupTask(j) \in Tasks
  BY DEF Tasks
<1>2. \A j \in Jobs : \A z \in Zooms(j) : \A b \in DOMAIN Batches[j][z] :
        CalcTask(j, z, b) \in Tasks
  <2>. SUFFICES ASSUME NEW j \in Jobs, NEW z \in Zooms(j), NEW b \in DOMAIN Batches[j][z]
                PROVE  CalcTask(j, z, b) \in Tasks
    OBVIOUS
  <2>. DEFINE OfZoom(y) == {CalcTask(j, y, a) : a \in DOMAIN Batches[j][y]}
  <2>1. CalcTask(j, z, b) \in OfZoom(z)
    OBVIOUS
  <2>. HIDE DEF OfZoom
  <2>2. CalcTask(j, z, b) \in UNION {OfZoom(y) : y \in Zooms(j)}
    BY <2>1
  <2>3. CalcTask(j, z, b) \in CalcTasks(j)
    BY <2>2 DEF CalcTasks, OfZoom
  <2>. QED  BY <2>3 DEF Tasks
<1>3. \A j \in Jobs : \A t \in TilesOf(j) : RenderTask(j, t) \in Tasks
  <2>. SUFFICES ASSUME NEW j \in Jobs, NEW t \in TilesOf(j)
                PROVE  RenderTask(j, t) \in Tasks
    OBVIOUS
  <2>1. RenderTask(j, t) \in RenderTasks(j)
    BY DEF RenderTasks
  <2>2. RenderTask(j, t) \in UNION {RenderTasks(k) : k \in Jobs}
    BY <2>1
  <2>. QED  BY <2>2 DEF Tasks
<1>. QED  BY <1>1, <1>2, <1>3, TaskFields DEF OfType

LEMMA KindsOfTask ==
  /\ \A t \in Tasks : t.type \in {"setup", "calc", "render"}
  /\ \A t \in OfType("setup") : t.job \in Jobs /\ t = SetupTask(t.job)
  /\ \A c \in OfType("calc") :
       /\ c.job \in Jobs /\ c.zoom \in Zooms(c.job)
       /\ c.batch \in DOMAIN Batches[c.job][c.zoom] /\ c = CalcTask(c.job, c.zoom, c.batch)
  /\ \A r \in OfType("render") :
       r.job \in Jobs /\ r.tile \in TilesOf(r.job) /\ r = RenderTask(r.job, r.tile)
<1>1. ASSUME NEW t \in Tasks
      PROVE  \/ \E j \in Jobs : t = SetupTask(j)
             \/ \E j \in Jobs : \E z \in Zooms(j) : \E b \in DOMAIN Batches[j][z] :
                  t = CalcTask(j, z, b)
             \/ \E j \in Jobs : \E u \in TilesOf(j) : t = RenderTask(j, u)
  <2>1. \/ \E j \in Jobs : t = SetupTask(j)
        \/ \E j \in Jobs : t \in CalcTasks(j)
        \/ \E j \in Jobs : t \in RenderTasks(j)
    <3>1. \/ t \in {SetupTask(j) : j \in Jobs}
          \/ t \in UNION {CalcTasks(j) : j \in Jobs}
          \/ t \in UNION {RenderTasks(j) : j \in Jobs}
      BY DEF Tasks
    <3>2. CASE t \in {SetupTask(j) : j \in Jobs}
      BY <3>2
    <3>3. CASE t \in UNION {CalcTasks(j) : j \in Jobs}
      BY <3>3
    <3>4. CASE t \in UNION {RenderTasks(j) : j \in Jobs}
      BY <3>4
    <3>. QED  BY <3>1, <3>2, <3>3, <3>4
  <2>. QED  BY <2>1 DEF CalcTasks, RenderTasks
<1>2. \A t \in Tasks :
        \/ t.type = "setup" /\ t.job \in Jobs /\ t = SetupTask(t.job)
        \/ /\ t.type = "calc" /\ t.job \in Jobs /\ t.zoom \in Zooms(t.job)
           /\ t.batch \in DOMAIN Batches[t.job][t.zoom] /\ t = CalcTask(t.job, t.zoom, t.batch)
        \/ /\ t.type = "render" /\ t.job \in Jobs /\ t.tile \in TilesOf(t.job)
           /\ t = RenderTask(t.job, t.tile)
  BY <1>1, TaskFields
<1>. QED  BY <1>2 DEF OfType

(* A tile is at one place. *)
LEMMA OnePlace ==
  ASSUME NEW c \in OfType("calc"), NEW d \in OfType("calc"),
         NEW i \in DOMAIN Batch(c), NEW k \in DOMAIN Batch(d), Batch(c)[i] = Batch(d)[k]
  PROVE  c = d /\ i = k
<1>1. ASSUME NEW e \in OfType("calc"), NEW n \in DOMAIN Batch(e)
      PROVE  /\ <<e.job, e.zoom, e.batch, n>> \in Places
             /\ TileAt(<<e.job, e.zoom, e.batch, n>>) = Batch(e)[n]
  BY KindsOfTask DEF Batch, Places, TileAt
<1>3. \A p, q \in Places : TileAt(p) = TileAt(q) => p = q
  BY PrerenderAssumption
<1>2. <<c.job, c.zoom, c.batch, i>> = <<d.job, d.zoom, d.batch, k>>
  <2>. DEFINE p == <<c.job, c.zoom, c.batch, i>>
              q == <<d.job, d.zoom, d.batch, k>>
  <2>1. p \in Places /\ q \in Places /\ TileAt(p) = TileAt(q)
    BY <1>1
  <2>. HIDE DEF p, q
  <2>2. p = q
    BY <1>3, <2>1
  <2>. QED  BY <2>2 DEF p, q
<1>. QED  BY <1>2, KindsOfTask

LEMMA BatchTiles ==
  ASSUME NEW c \in OfType("calc")
  PROVE  /\ Elems(Batch(c)) \subseteq TilesOf(c.job) /\ Elems(Batch(c)) \subseteq Tiles
         /\ IsFiniteSet(Elems(Batch(c))) /\ Cardinality(Elems(Batch(c))) = Len(Batch(c))
         /\ Len(Batch(c)) \in Nat \ {0} /\ Elems(Batch(c)) # {}
         /\ DOMAIN Batch(c) = 1..Len(Batch(c))
<1>1. /\ c.job \in Jobs /\ c.zoom \in Zooms(c.job)
      /\ c.batch \in DOMAIN Batches[c.job][c.zoom]
  BY KindsOfTask
<1>2. /\ Batch(c) \in Seq(Tiles) /\ Len(Batch(c)) \in Nat \ {0}
      /\ DOMAIN Batch(c) = 1..Len(Batch(c))
  BY <1>1, BatchData DEF Batch
<1>3. Elems(Batch(c)) \subseteq TilesOf(c.job)
  BY <1>1 DEF Batch, TilesOf, Elems, Zooms
<1>4. Batch(c) \in Bijection(1..Len(Batch(c)), Elems(Batch(c)))
  <2>1. \A i, k \in DOMAIN Batch(c) : Batch(c)[i] = Batch(c)[k] => i = k
    BY OnePlace
  <2>2. Batch(c) \in [1..Len(Batch(c)) -> Elems(Batch(c))]
    BY <1>2 DEF Elems
  <2>3. \A e \in Elems(Batch(c)) : \E i \in 1..Len(Batch(c)) : Batch(c)[i] = e
    BY <1>2 DEF Elems
  <2>. QED  BY <1>2, <2>1, <2>2, <2>3 DEF Bijection, Injection, Surjection, IsInjective
<1>5. IsFiniteSet(Elems(Batch(c))) /\ Cardinality(Elems(Batch(c))) = Len(Batch(c))
  <2>1. ExistsBijection(1..Len(Batch(c)), Elems(Batch(c)))
    BY <1>4 DEF ExistsBijection
  <2>. QED  BY <1>2, <2>1, FS_NatBijection, FS_CountingElements
<1>6. Elems(Batch(c)) # {} /\ Elems(Batch(c)) \subseteq Tiles
  BY <1>2 DEF Elems
<1>. QED  BY <1>2, <1>3, <1>5, <1>6

LEMMA TileBatch ==
  ASSUME NEW j \in Jobs, NEW t \in TilesOf(j)
  PROVE  /\ \E c \in OfType("calc") : c.job = j /\ t \in Elems(Batch(c))
         /\ t \in Tiles
<1>1. PICK z \in Zooms(j) : \E b \in DOMAIN Batches[j][z] : t \in Elems(Batches[j][z][b])
  BY DEF TilesOf, Elems, Zooms
<1>2. PICK b \in DOMAIN Batches[j][z] : t \in Elems(Batches[j][z][b])
  BY <1>1
<1>3. CalcTask(j, z, b) \in OfType("calc")
  BY TaskKinds
<1>4. LET c == CalcTask(j, z, b) IN c.job = j /\ Batch(c) = Batches[j][z][b]
  BY TaskFields DEF Batch
<1>. QED  BY <1>2, <1>3, <1>4, BatchTiles

LEMMA TileOwner ==
  /\ \A c, d \in OfType("calc") : \A t \in Elems(Batch(c)) \cap Elems(Batch(d)) : c = d
  /\ \A j, k \in Jobs : \A t \in TilesOf(j) \cap TilesOf(k) : j = k
<1>1. ASSUME NEW c \in OfType("calc"), NEW d \in OfType("calc"),
             NEW t \in Elems(Batch(c)) \cap Elems(Batch(d))
      PROVE  c = d
  BY OnePlace DEF Elems
<1>2. ASSUME NEW j \in Jobs, NEW k \in Jobs, NEW t \in TilesOf(j) \cap TilesOf(k)
      PROVE  j = k
  <2>1. PICK c \in OfType("calc") : c.job = j /\ t \in Elems(Batch(c))
    BY TileBatch
  <2>2. PICK d \in OfType("calc") : d.job = k /\ t \in Elems(Batch(d))
    BY TileBatch
  <2>. QED  BY <1>1, <2>1, <2>2
<1>. QED  BY <1>1, <1>2

-----------------------------------------------------------------------------
(* A worker at work holds a running task, and a record of its own. *)
LEMMA Worker ==
  ASSUME ExecInv, NEW w \in Workers, exec[w].pc # "idle"
  PROVE  /\ Active(w) /\ exec[w] \in Working /\ exec[w].task \in running
         /\ exec[w].task \in Tasks /\ exec[w].pc \in PcsOf[exec[w].task.type]
         /\ exec[w].i \in Nat \ {0} /\ exec[w].task \notin queued \cup done
<1>1. Active(w)
  BY DEF Active, Idle
<1>2. exec[w] \in Working
  BY <1>1 DEF ExecInv, Active
<1>. QED  BY <1>1, <1>2 DEF ExecInv, Working

LEMMA IdleWorker ==
  ASSUME ExecInv, NEW w \in Workers
  PROVE  Active(w) <=> exec[w].pc # "idle"
<1>1. exec[w] \in {Idle} \cup Working
  BY DEF ExecInv
<1>2. \A e \in Working : e.pc # "idle"
  BY DEF Working, AfterCount, AfterAdd, InGate
<1>. QED  BY <1>1, <1>2 DEF Active, Idle

(* A worker goes on within its task, perhaps posting another. *)
Walks(w, e, new) ==
  /\ e \in Working /\ e.task = exec[w].task /\ exec' = [exec EXCEPT ![w] = e]
  /\ e.pc \in PcsOf[e.task.type]
  /\ e.pc = "nextBatch" => ~LastBatch(e.task)
  /\ e.pc = "finishZoom" => LastBatch(e.task)
  /\ new \subseteq Tasks \ Known
  /\ queued' = queued \cup new /\ UNCHANGED <<running, done>>

LEMMA WalkExec ==
  ASSUME ExecInv, NEW w \in Workers, exec[w].pc # "idle", NEW e, NEW new, Walks(w, e, new)
  PROVE  ExecInv' /\ Known' = Known \cup new
<1>1. /\ Active(w) /\ exec[w].task \in running /\ e # Idle
      /\ exec'[w] = e /\ \A v \in Workers \ {w} : exec'[v] = exec[v]
      /\ e.task = exec[w].task /\ exec \in [Workers -> {Idle} \cup Working]
  <2>1. \A f \in Working : f # Idle
    BY DEF Working, AfterCount, AfterAdd, InGate, Idle
  <2>. QED  BY <2>1, Worker DEF ExecInv, Walks
<1>2. exec' \in [Workers -> {Idle} \cup Working]
  BY <1>1 DEF Walks
<1>3. \A v \in Workers : /\ Active(v)' <=> Active(v)
                         /\ Active(v) => exec'[v].task = exec[v].task
  BY <1>1 DEF Active
<1>4. \A v \in Workers : Active(v)' =>
        /\ exec'[v].task \in running' /\ exec'[v].pc \in PcsOf[exec'[v].task.type]
        /\ exec'[v].pc = "nextBatch" => ~LastBatch(exec'[v].task)
        /\ exec'[v].pc = "finishZoom" => LastBatch(exec'[v].task)
  BY <1>1, <1>3 DEF ExecInv, Walks
<1>5. /\ \A t \in running' : \E v \in Workers : Active(v)' /\ exec'[v].task = t
      /\ \A u, v \in Workers :
           Active(u)' /\ Active(v)' /\ exec'[u].task = exec'[v].task => u = v
  BY <1>3 DEF ExecInv, Walks
<1>6. /\ Known' = Known \cup new /\ Known' \subseteq Tasks
      /\ queued' \cap running' = {} /\ queued' \cap done' = {} /\ running' \cap done' = {}
  BY DEF ExecInv, Walks, Known
<1>7. \A t : LastBatch(t)' <=> LastBatch(t)
  BY DEF LastBatch
<1>. QED  BY <1>2, <1>4, <1>5, <1>6, <1>7 DEF ExecInv

(* What it reaches, nobody else does. *)
LEMMA WalkReached ==
  ASSUME ExecInv, NEW w \in Workers, exec[w].pc # "idle", NEW e, NEW new, Walks(w, e, new),
         NEW t, NEW pcs, "idle" \notin pcs
  PROVE  Reached(t, pcs)' <=> IF t = exec[w].task THEN e.pc \in pcs ELSE Reached(t, pcs)
<1>1. /\ exec[w].task \notin done /\ exec'[w] = e /\ e.task = exec[w].task
      /\ \A v \in Workers \ {w} : exec'[v] = exec[v]
      /\ done' = done
  BY Worker DEF ExecInv, Walks
<1>2. \A v \in Workers \ {w} : exec[v].pc \in pcs => exec[v].task # exec[w].task
  BY IdleWorker DEF ExecInv
<1>. QED  BY <1>1, <1>2 DEF Reached

(* Tasks of one type that have come to one of the places pcs. *)
LEMMA WalkSet ==
  ASSUME ExecInv, NEW w \in Workers, exec[w].pc # "idle", NEW e, NEW new, Walks(w, e, new),
         NEW type, NEW pcs, "idle" \notin pcs, exec[w].pc \in pcs => e.pc \in pcs
  PROVE  {t \in OfType(type) : Reached(t, pcs)'} =
           {t \in OfType(type) : Reached(t, pcs)} \cup
             {t \in {exec[w].task} : t.type = type /\ e.pc \in pcs}
<1>1. \A t : Reached(t, pcs)' <=>
               IF t = exec[w].task THEN e.pc \in pcs ELSE Reached(t, pcs)
  BY WalkReached
<1>2. Reached(exec[w].task, pcs) => exec[w].pc \in pcs
  BY Worker, IdleWorker DEF Reached, ExecInv
<1>3. exec[w].task \in Tasks
  BY Worker
<1>. QED  BY <1>1, <1>2, <1>3 DEF OfType

(* The places of each kind are passed in this order. *)
LEMMA WalkSets ==
  ASSUME ExecInv, NEW w \in Workers, exec[w].pc # "idle", NEW e, NEW new, Walks(w, e, new),
         exec[w].pc \in {"postCalcs"} => e.pc \in {"postCalcs"},
         exec[w].pc \in AfterCount => e.pc \in AfterCount,
         exec[w].pc = "return" => e.pc = "return",
         exec[w].pc \in AfterAdd => e.pc \in AfterAdd
  PROVE  LET here == exec[w].task IN
         /\ SetUp' = SetUp \cup {t \in {here} : t.type = "setup" /\ e.pc = "postCalcs"}
         /\ Counted' = Counted \cup {t \in {here} : t.type = "calc" /\ e.pc \in AfterCount}
         /\ Returned' = Returned \cup {t \in {here} : t.type = "calc" /\ e.pc = "return"}
         /\ Added' = Added \cup {t \in {here} : t.type = "render" /\ e.pc \in AfterAdd}
<1>1. "idle" \notin {"postCalcs"} /\ "idle" \notin AfterCount /\ "idle" \notin {"return"}
      /\ "idle" \notin AfterAdd
  BY DEF AfterCount, AfterAdd, InGate
<1>2. SetUp' = SetUp \cup {t \in {exec[w].task} : t.type = "setup" /\ e.pc \in {"postCalcs"}}
  <2>. DEFINE pcs == {"postCalcs"}
  <2>1. "idle" \notin pcs /\ (exec[w].pc \in pcs => e.pc \in pcs)
    OBVIOUS
  <2>. HIDE DEF pcs
  <2>2. {t \in OfType("setup") : Reached(t, pcs)'} =
           {t \in OfType("setup") : Reached(t, pcs)} \cup
             {t \in {exec[w].task} : t.type = "setup" /\ e.pc \in pcs}
    BY <2>1, WalkSet
  <2>. QED  BY <2>2 DEF SetUp, pcs
<1>3. Counted' = Counted \cup {t \in {exec[w].task} : t.type = "calc" /\ e.pc \in AfterCount}
  BY <1>1, WalkSet DEF Counted
<1>4. Returned' = Returned \cup {t \in {exec[w].task} : t.type = "calc" /\ e.pc \in {"return"}}
  <2>. DEFINE pcs == {"return"}
  <2>1. "idle" \notin pcs /\ (exec[w].pc \in pcs => e.pc \in pcs)
    OBVIOUS
  <2>. HIDE DEF pcs
  <2>2. {t \in OfType("calc") : Reached(t, pcs)'} =
           {t \in OfType("calc") : Reached(t, pcs)} \cup
             {t \in {exec[w].task} : t.type = "calc" /\ e.pc \in pcs}
    BY <2>1, WalkSet
  <2>. QED  BY <2>2 DEF Returned, pcs
<1>5. Added' = Added \cup {t \in {exec[w].task} : t.type = "render" /\ e.pc \in AfterAdd}
  BY <1>1, WalkSet DEF Added
<1>. QED  BY <1>2, <1>3, <1>4, <1>5

(* The sets stay as they are while nobody gets anywhere. *)
SameSets ==
  SetUp' = SetUp /\ Counted' = Counted /\ Returned' = Returned /\ Added' = Added

LEMMA StandSets ==
  ASSUME ExecInv, UNCHANGED <<exec, running, done>>, NEW new \in SUBSET (Tasks \ Known),
         queued' = queued \cup new
  PROVE  ExecInv' /\ SameSets /\ Known' = Known \cup new
<1>1. \A t, pcs : Reached(t, pcs)' <=> Reached(t, pcs)
  BY DEF Reached
<1>2. SameSets
  BY <1>1 DEF SameSets, SetUp, Counted, Returned, Added
<1>3. Known' = Known \cup new
  BY DEF Known
<1>4. Known' \subseteq Tasks /\ queued' \cap running' = {} /\ queued' \cap done' = {}
  BY <1>3 DEF ExecInv, Known
<1>. QED  BY <1>2, <1>3, <1>4 DEF ExecInv, Active, LastBatch

LEMMA TakeSets ==
  ASSUME ExecInv, NEW w \in Workers, NEW t \in queued, exec[w] = Idle,
         queued' = queued \ {t}, running' = running \cup {t}, UNCHANGED done,
         exec' = [exec EXCEPT ![w] = [pc |-> FirstPc[t.type], task |-> t, i |-> 1]]
  PROVE  /\ ExecInv' /\ SameSets /\ Known' = Known
         /\ exec'[w].pc \in {"create", "count", "exists"} /\ exec'[w].task = t
         /\ \A v \in Workers \ {w} : exec'[v] = exec[v]
<1>. DEFINE e == [pc |-> FirstPc[t.type], task |-> t, i |-> 1]
<1>1. t \in Tasks /\ t.type \in {"setup", "calc", "render"} /\ t \notin running \cup done
  BY KindsOfTask DEF ExecInv, Known
<1>2. /\ e \in Working /\ e.pc \in {"create", "count", "exists"} /\ e.task = t
      /\ e.pc \in PcsOf[t.type]
  BY <1>1 DEF Working, FirstPc, PcsOf
<1>3. e # Idle
  BY <1>2 DEF Idle
<1>. HIDE DEF e
<1>4. exec'[w] = e /\ \A v \in Workers \ {w} : exec'[v] = exec[v]
  BY DEF ExecInv, e
<1>5. \A u, pcs : "create" \notin pcs /\ "count" \notin pcs /\ "exists" \notin pcs
                  /\ "idle" \notin pcs => (Reached(u, pcs)' <=> Reached(u, pcs))
  BY <1>2, <1>4 DEF Reached, Idle
<1>6. SameSets
  <2>1. \A pcs \in {{"postCalcs"}, AfterCount, {"return"}, AfterAdd} :
          \A u : Reached(u, pcs)' <=> Reached(u, pcs)
    BY <1>5 DEF AfterCount, AfterAdd, InGate
  <2>. QED  BY <2>1 DEF SameSets, SetUp, Counted, Returned, Added
<1>7. Known' = Known /\ Known' \subseteq Tasks
  BY DEF Known, ExecInv
<1>8. exec' \in [Workers -> {Idle} \cup Working]
  BY <1>2 DEF ExecInv, e
<1>9. \A v \in Workers : Active(v)' => exec'[v].task \in running' /\
        (v # w => Active(v) /\ exec[v].task # t)
  BY <1>1, <1>2, <1>4 DEF ExecInv, Active
<1>10. \A v \in Workers : Active(v)' =>
         /\ exec'[v].pc \in PcsOf[exec'[v].task.type]
         /\ exec'[v].pc = "nextBatch" => ~LastBatch(exec'[v].task)
         /\ exec'[v].pc = "finishZoom" => LastBatch(exec'[v].task)
  BY <1>2, <1>4 DEF ExecInv, Active
<1>11. \A u \in running' : \E v \in Workers : Active(v)' /\ exec'[v].task = u
  BY <1>2, <1>3, <1>4 DEF ExecInv, Active
<1>12. \A u, v \in Workers :
         Active(u)' /\ Active(v)' /\ exec'[u].task = exec'[v].task => u = v
  BY <1>2, <1>4, <1>9 DEF ExecInv, Active
<1>13. queued' \cap running' = {} /\ queued' \cap done' = {} /\ running' \cap done' = {}
  BY <1>1 DEF ExecInv
<1>. QED  BY <1>2, <1>4, <1>6, <1>7, <1>8, <1>9, <1>10, <1>11, <1>12, <1>13
         DEF ExecInv, LastBatch

LEMMA ReturnSets ==
  ASSUME ExecInv, NEW w \in Workers, exec[w].pc \in {"postCalcs", "return"}, Return(w)
  PROVE  /\ ExecInv' /\ SameSets /\ Known' = Known
         /\ exec'[w] = Idle /\ \A v \in Workers \ {w} : exec'[v] = exec[v]
<1>. DEFINE t == exec[w].task
<1>1. /\ Active(w) /\ t \in running /\ t \in Tasks /\ t \notin queued \cup done
      /\ t.type = "setup" => exec[w].pc = "postCalcs"
      /\ t.type # "setup" => exec[w].pc = "return"
      /\ t.type \in {"setup", "calc", "render"}
  BY Worker, KindsOfTask DEF PcsOf, AfterCount, AfterAdd, InGate
<1>2. /\ running' = running \ {t} /\ done' = done \cup {t} /\ queued' = queued
      /\ exec'[w] = Idle /\ exec' = [exec EXCEPT ![w] = Idle]
      /\ \A v \in Workers \ {w} : exec'[v] = exec[v]
  BY DEF Return, Bag!Finish, ExecInv
<1>3. \A v \in Workers \ {w} : Active(v) => exec[v].task # t
  BY <1>1 DEF ExecInv
<1>4. \A u, pcs : "idle" \notin pcs /\ (u = t => exec[w].pc \in pcs)
                  => (Reached(u, pcs)' <=> Reached(u, pcs))
  BY <1>1, <1>2, <1>3 DEF Reached, Idle
<1>5. SameSets
  <2>1. \A u \in OfType("setup") : Reached(u, {"postCalcs"})' <=> Reached(u, {"postCalcs"})
    BY <1>1, <1>4 DEF OfType
  <2>2. \A u \in OfType("calc") : /\ Reached(u, AfterCount)' <=> Reached(u, AfterCount)
                                  /\ Reached(u, {"return"})' <=> Reached(u, {"return"})
    BY <1>1, <1>4 DEF OfType, AfterCount
  <2>3. \A u \in OfType("render") : Reached(u, AfterAdd)' <=> Reached(u, AfterAdd)
    BY <1>1, <1>4 DEF OfType, AfterAdd, InGate
  <2>. QED  BY <2>1, <2>2, <2>3 DEF SameSets, SetUp, Counted, Returned, Added
<1>6. Known' = Known /\ Known' \subseteq Tasks
  BY <1>1, <1>2 DEF Known, ExecInv
<1>7. exec' \in [Workers -> {Idle} \cup Working]
  BY <1>2 DEF ExecInv
<1>8. \A v \in Workers : Active(v)' => v # w /\ Active(v) /\ exec'[v] = exec[v]
  BY <1>2 DEF Active
<1>9. \A v \in Workers : Active(v)' =>
        /\ exec'[v].task \in running' /\ exec'[v].pc \in PcsOf[exec'[v].task.type]
        /\ exec'[v].pc = "nextBatch" => ~LastBatch(exec'[v].task)
        /\ exec'[v].pc = "finishZoom" => LastBatch(exec'[v].task)
  BY <1>2, <1>3, <1>8 DEF ExecInv
<1>10. /\ \A u \in running' : \E v \in Workers : Active(v)' /\ exec'[v].task = u
       /\ \A u, v \in Workers :
            Active(u)' /\ Active(v)' /\ exec'[u].task = exec'[v].task => u = v
  BY <1>2, <1>8 DEF ExecInv, Active
<1>11. queued' \cap running' = {} /\ queued' \cap done' = {} /\ running' \cap done' = {}
  BY <1>1, <1>2 DEF ExecInv
<1>. QED  BY <1>2, <1>5, <1>6, <1>7, <1>9, <1>10, <1>11 DEF ExecInv, LastBatch

-----------------------------------------------------------------------------
(* What has been counted stays counted. *)
LEMMA ConformsKept ==
  ASSUME Counted \subseteq Counted', \A j \in Jobs : Started(j) => Started(j)',
         NEW t \in Tasks, Conforms(t)
  PROVE  Conforms(t)'
<1>1. \A j : CountedOf(j) \subseteq CountedOf(j)'
  BY DEF CountedOf
<1>2. t.type = "calc" => t.job \in Jobs
  BY KindsOfTask DEF OfType
<1>. QED  BY <1>1, <1>2 DEF Conforms

LEMMA RunningSet ==
  ASSUME ExecInv
  PROVE  running = {exec[w].task : w \in {v \in Workers : exec[v] # Idle}}
BY DEF ExecInv, Active

StoreTyped ==
  /\ pending \subseteq Tiles /\ writing \subseteq Tiles /\ stored \subseteq Tiles
  /\ force \in BOOLEAN
JobTyped ==
  /\ owner \in [Blocks -> Jobs \cup {"free"}]
  /\ stats \in [Jobs -> Blocks \cup {"none"}]
  /\ counters \in [Blocks -> [num : Nat, cur : Nat, remain : Nat]]
  /\ prerenders \in Seq(Blocks)
  /\ rendered \subseteq Tiles
StatusTyped ==
  /\ reading \in 0..Len(prerenders) + 1 /\ job_stats \in Blocks \cup {"none"}
  /\ statuses \in 0..MaxStatus

LEMMA Types == ExecInv => (TypeOK <=> StoreTyped /\ JobTyped /\ StatusTyped)
<1>. SUFFICES ASSUME ExecInv PROVE TypeOK <=> StoreTyped /\ JobTyped /\ StatusTyped
  OBVIOUS
<1>1. /\ running = {exec[w].task : w \in {v \in Workers : exec[v] # Idle}}
      /\ queued \subseteq Tasks /\ running \subseteq Tasks /\ done \subseteq Tasks
  BY RunningSet DEF ExecInv, Known
<1>. QED  BY <1>1 DEF TypeOK, StoreTyped, JobTyped, StatusTyped

(* A step that counts nothing and keeps the counters, and perhaps the list. *)
SameJobs ==
  /\ SetUp' = SetUp /\ Counted' = Counted /\ Added' = Added
  /\ \A j \in Jobs : Remaining(j)' = Remaining(j)
  /\ \A t \in Known' : t \in Known \/ Conforms(t)
  /\ UNCHANGED <<owner, stats, counters, rendered>>
Quiet == SameJobs /\ UNCHANGED prerenders

LEMMA SameJobsInv ==
  ASSUME Inv, ExecInv', SameJobs
  PROVE  /\ TaskInv' /\ CountersInv' /\ OwnerInv'
         /\ \A j \in Jobs : /\ Started(j)' <=> Started(j)
                            /\ Complete(j)' <=> Complete(j)
                            /\ AllZooms(j)' <=> AllZooms(j)
                            /\ Over(j)' <=> Over(j)
<1>1. UNCHANGED <<owner, stats, counters, rendered>>
  BY DEF SameJobs
<1>2. /\ SetUp' = SetUp /\ Counted' = Counted /\ Added' = Added
      /\ \A j \in Jobs : Remaining(j)' = Remaining(j)
  BY DEF SameJobs
<1>3. \A j : /\ Started(j)' <=> Started(j)
             /\ CountedOf(j)' = CountedOf(j)
             /\ Complete(j)' <=> Complete(j)
             /\ Alive(j)' <=> Alive(j)
  BY <1>1, <1>2 DEF Started, CountedOf, Complete, Alive
<1>4. \A j \in Jobs : /\ AllZooms(j)' <=> AllZooms(j)
                      /\ Over(j)' <=> Over(j)
  BY <1>2, <1>3 DEF AllZooms, Over
<1>5. TaskInv'
  <2>1. \A t \in Known' : Conforms(t)
    BY DEF SameJobs, Inv, TaskInv
  <2>2. Known' \subseteq Tasks
    BY DEF ExecInv
  <2>3. \A t \in Known' : Conforms(t)'
    BY <1>2, <1>3, <2>1, <2>2, ConformsKept
  <2>. QED  BY <1>1, <1>2, <1>3, <2>3 DEF Inv, TaskInv
<1>6. CountersInv'
  BY <1>1, <1>2, <1>3 DEF Inv, CountersInv
<1>7. OwnerInv'
  BY <1>1, <1>3, <1>4 DEF Inv, OwnerInv
<1>. QED  BY <1>3, <1>4, <1>5, <1>6, <1>7

LEMMA QuietInv ==
  ASSUME Inv, ExecInv', Quiet, StoreTyped'
  PROVE  /\ TaskInv' /\ CountersInv' /\ OwnerInv'
         /\ UNCHANGED <<reading, job_stats>> => ListInv'
         /\ UNCHANGED statusVars => TypeOK'
<1>1. SameJobs /\ UNCHANGED <<owner, stats, counters, prerenders, rendered>>
  BY DEF Quiet, SameJobs
<1>2. UNCHANGED <<reading, job_stats>> => ListInv'
  BY <1>1, SameJobsInv DEF Inv, ListInv
<1>3. UNCHANGED statusVars => TypeOK'
  <2>1. JobTyped /\ StatusTyped
    BY Types DEF Inv
  <2>2. JobTyped'
    BY <1>1, <2>1 DEF JobTyped
  <2>3. UNCHANGED statusVars => StatusTyped'
    BY <1>1, <2>1 DEF StatusTyped, statusVars
  <2>4. ExecInv' => (StoreTyped' /\ JobTyped' /\ StatusTyped' => TypeOK')
    BY Types, PTL
  <2>. QED  BY <2>2, <2>3, <2>4
<1>. QED  BY <1>1, <1>2, <1>3, SameJobsInv

(* Who was in the gate is where it was; nobody comes to it. *)
GateSame ==
  \A v \in Workers : exec'[v].pc \in {"loadCounts", "remove", "destroy"} =>
    exec'[v].pc = exec[v].pc /\ exec'[v].task = exec[v].task

LEMMA GateKept ==
  ASSUME Inv, ExecInv', GateSame, UNCHANGED <<stats, prerenders>>,
         \A j \in Jobs : AllZooms(j) => AllZooms(j)',
         \A j \in Jobs : Complete(j) => Complete(j)'
  PROVE  GateInv'
<1>1. \A v \in Workers : exec[v].pc \in {"loadCounts", "remove", "destroy"} => Job(v) \in Jobs
  BY Worker, KindsOfTask DEF Inv, Job, OfType
<1>. QED  BY <1>1 DEF Inv, GateInv, GateSame, At, Job, Ptr, Over

(* So a step that stays out of the gate keeps everything. *)
LEMMA OutOfGate ==
  ASSUME Inv, ExecInv', Quiet, StoreTyped', GateSame, UNCHANGED statusVars
  PROVE  Inv'
<1>1. \A j \in Jobs : /\ AllZooms(j) => AllZooms(j)'
                      /\ Complete(j) => Complete(j)'
  BY SameJobsInv DEF Quiet
<1>2. GateInv'
  BY <1>1, GateKept DEF Quiet, SameJobs
<1>. QED  BY <1>2, QuietInv DEF Inv, statusVars

-----------------------------------------------------------------------------
(* What a worker is at tells the kind of its task. *)
LEMMA Where ==
  ASSUME ExecInv, NEW w \in Workers
  PROVE  /\ exec[w].pc # "idle" => Job(w) \in Jobs
         /\ exec[w].pc \in {"create", "postCalcs"} => exec[w].task \in OfType("setup")
         /\ exec[w].pc \in {"count", "postRenders", "nextBatch", "finishZoom"}
              => exec[w].task \in OfType("calc")
         /\ exec[w].pc \in {"exists", "render", "addCurrent", "commit"} \cup InGate
              => exec[w].task \in OfType("render")
<1>. SUFFICES ASSUME exec[w].pc # "idle"
              PROVE  /\ Job(w) \in Jobs
                     /\ exec[w].pc \in {"create", "postCalcs"} => exec[w].task \in OfType("setup")
                     /\ exec[w].pc \in {"count", "postRenders", "nextBatch", "finishZoom"}
                          => exec[w].task \in OfType("calc")
                     /\ exec[w].pc \in {"exists", "render", "addCurrent", "commit"} \cup InGate
                          => exec[w].task \in OfType("render")
  BY DEF InGate
<1>. DEFINE t == exec[w].task
<1>1. t \in Tasks /\ exec[w].pc \in PcsOf[t.type]
  BY Worker
<1>2. t \in OfType("setup") \/ t \in OfType("calc") \/ t \in OfType("render")
  BY <1>1, KindsOfTask DEF OfType
<1>3. t \in OfType("setup") => exec[w].pc \in {"create", "postCalcs"}
  BY <1>1 DEF OfType, PcsOf
<1>4. t \in OfType("calc") => exec[w].pc \in {"count"} \cup AfterCount
  BY <1>1 DEF OfType, PcsOf
<1>5. t \in OfType("render") => exec[w].pc \in {"exists", "render", "addCurrent"} \cup AfterAdd
  BY <1>1 DEF OfType, PcsOf
<1>6. Job(w) \in Jobs
  BY <1>2, KindsOfTask DEF Job
<1>. QED  BY <1>2, <1>3, <1>4, <1>5, <1>6 DEF AfterCount, AfterAdd, InGate

LEMMA ReachedHere ==
  ASSUME ExecInv, NEW w \in Workers, exec[w].pc # "idle", NEW pcs, "idle" \notin pcs
  PROVE  Reached(exec[w].task, pcs) <=> exec[w].pc \in pcs
<1>1. exec[w].task \notin done
  BY Worker
<1>2. ASSUME NEW v \in Workers, exec[v].pc \in pcs, exec[v].task = exec[w].task
      PROVE  v = w
  BY <1>2, IdleWorker DEF ExecInv
<1>. QED  BY <1>1, <1>2 DEF Reached

LEMMA Came ==
  ASSUME ExecInv, NEW w \in Workers
  PROVE  /\ SetUp \cup Counted \cup Returned \cup Added \subseteq Known
         /\ Returned \subseteq Counted
         /\ exec[w].pc = "create" => exec[w].task \notin SetUp
         /\ exec[w].pc = "postCalcs" => exec[w].task \in SetUp
         /\ exec[w].pc = "count" => exec[w].task \notin Counted
         /\ exec[w].pc \in AfterCount /\ exec[w].task \in OfType("calc")
              => exec[w].task \in Counted
         /\ exec[w].pc \in {"count", "postRenders", "nextBatch", "finishZoom"}
              => exec[w].task \notin Returned
         /\ exec[w].pc \in {"exists", "render", "addCurrent"} => exec[w].task \notin Added
         /\ exec[w].pc \in AfterAdd /\ exec[w].task \in OfType("render")
              => exec[w].task \in Added
<1>1. /\ "idle" \notin {"postCalcs"} /\ "idle" \notin AfterCount /\ "idle" \notin {"return"}
      /\ "idle" \notin AfterAdd
  BY DEF AfterCount, AfterAdd, InGate
<1>2. \A t, pcs : "idle" \notin pcs /\ Reached(t, pcs) => t \in Known
  BY Worker DEF Reached, Known
<1>3. SetUp \cup Counted \cup Returned \cup Added \subseteq Known
  BY <1>1, <1>2 DEF SetUp, Counted, Returned, Added
<1>4. Returned \subseteq Counted
  BY DEF Returned, Counted, Reached, AfterCount
<1>5. exec[w].pc # "idle" =>
        /\ exec[w].task \in SetUp <=>
             exec[w].task \in OfType("setup") /\ exec[w].pc \in {"postCalcs"}
        /\ exec[w].task \in Counted <=>
             exec[w].task \in OfType("calc") /\ exec[w].pc \in AfterCount
        /\ exec[w].task \in Returned <=>
             exec[w].task \in OfType("calc") /\ exec[w].pc \in {"return"}
        /\ exec[w].task \in Added <=>
             exec[w].task \in OfType("render") /\ exec[w].pc \in AfterAdd
  <2>. SUFFICES ASSUME exec[w].pc # "idle"
                PROVE  /\ Reached(exec[w].task, {"postCalcs"}) <=> exec[w].pc \in {"postCalcs"}
                       /\ Reached(exec[w].task, AfterCount) <=> exec[w].pc \in AfterCount
                       /\ Reached(exec[w].task, {"return"}) <=> exec[w].pc \in {"return"}
                       /\ Reached(exec[w].task, AfterAdd) <=> exec[w].pc \in AfterAdd
    BY DEF SetUp, Counted, Returned, Added
  <2>1. Reached(exec[w].task, {"postCalcs"}) <=> exec[w].pc \in {"postCalcs"}
    <3>. DEFINE pcs == {"postCalcs"}
    <3>1. "idle" \notin pcs
      OBVIOUS
    <3>. HIDE DEF pcs
    <3>2. Reached(exec[w].task, pcs) <=> exec[w].pc \in pcs
      BY <3>1, ReachedHere
    <3>. QED  BY <3>2 DEF pcs
  <2>2. Reached(exec[w].task, {"return"}) <=> exec[w].pc \in {"return"}
    <3>. DEFINE pcs == {"return"}
    <3>1. "idle" \notin pcs
      OBVIOUS
    <3>. HIDE DEF pcs
    <3>2. Reached(exec[w].task, pcs) <=> exec[w].pc \in pcs
      BY <3>1, ReachedHere
    <3>. QED  BY <3>2 DEF pcs
  <2>. QED  BY <1>1, <2>1, <2>2, ReachedHere
<1>6. exec[w].pc = "postCalcs" => exec[w].task \in OfType("setup")
  BY Where
<1>. QED  BY <1>1, <1>3, <1>4, <1>5, <1>6 DEF AfterCount, AfterAdd, InGate

(* The counters exist before any task but the setup looks at them. *)
LEMMA StartedJob ==
  ASSUME Inv
  PROVE  /\ \A j \in Jobs : CountedOf(j) # {} => Started(j)
         /\ \A c \in Counted : Started(c.job) /\ c.job \in Jobs
         /\ \A j \in Jobs : rendered \cap TilesOf(j) \subseteq CountedOf(j)
         /\ \A j \in Jobs : CountedOf(j) \subseteq TilesOf(j)
<1>1. \A c \in Counted : Started(c.job) /\ c.job \in Jobs
  <2>1. Counted \subseteq Known
    <3>1. "idle" \notin AfterCount
      BY DEF AfterCount
    <3>. QED  BY <3>1, Worker DEF Inv, Counted, Reached, Known
  <2>. QED  BY <2>1, KindsOfTask DEF Inv, TaskInv, Conforms, Counted, OfType
<1>2. \A j \in Jobs : CountedOf(j) # {} => Started(j)
  BY <1>1 DEF CountedOf
<1>3. \A j \in Jobs : CountedOf(j) \subseteq TilesOf(j)
  BY BatchTiles DEF CountedOf, Counted
<1>4. \A j \in Jobs : rendered \cap TilesOf(j) \subseteq CountedOf(j)
  <2>. SUFFICES ASSUME NEW j \in Jobs, NEW t \in rendered \cap TilesOf(j)
                PROVE  t \in CountedOf(j)
    OBVIOUS
  <2>1. RenderTask(j, t) \in OfType("render") /\ RenderTask(j, t).tile = t
        /\ RenderTask(j, t).job = j /\ RenderTask(j, t).type = "render"
    BY TaskKinds, TaskFields
  <2>2. RenderTask(j, t) \in Added
    BY <2>1 DEF Inv, TaskInv
  <2>3. RenderTask(j, t) \in Known
    <3>1. "idle" \notin AfterAdd
      BY DEF AfterAdd, InGate
    <3>. QED  BY <2>2, <3>1, Worker DEF Inv, Added, Reached, Known
  <2>. QED  BY <2>1, <2>3 DEF Inv, TaskInv, Conforms
<1>. QED  BY <1>1, <1>2, <1>3, <1>4

LEMMA StartedWorker ==
  ASSUME Inv, NEW w \in Workers, exec[w].pc # "idle"
  PROVE  /\ exec[w].pc = "create" => ~Started(Job(w))
         /\ exec[w].pc # "create" => Started(Job(w)) /\ Ptr(w) \in Blocks
         /\ exec[w].task \in Known
<1>1. ExecInv /\ JobTyped /\ Job(w) \in Jobs /\ exec[w].task \in Known
      /\ exec[w].task \in Tasks /\ exec[w].pc \in PcsOf[exec[w].task.type]
  BY Types, Where, Worker DEF Inv, Known
<1>2. CASE exec[w].task \in OfType("setup")
  <2>1. exec[w].pc \in {"create", "postCalcs"} /\ exec[w].task = SetupTask(Job(w))
    BY <1>1, <1>2, KindsOfTask DEF PcsOf, OfType, Job
  <2>2. Started(Job(w)) <=> exec[w].task \in SetUp
    BY <1>1, <2>1 DEF Inv, TaskInv
  <2>. QED  BY <1>1, <2>1, <2>2, Came DEF JobTyped, Started, Ptr
<1>3. CASE exec[w].task \in OfType("calc")
  <2>1. Started(Job(w)) /\ exec[w].pc # "create"
    BY <1>1, <1>3 DEF Inv, TaskInv, Conforms, OfType, Job, PcsOf, AfterCount
  <2>. QED  BY <1>1, <2>1 DEF JobTyped, Started, Ptr
<1>4. CASE exec[w].task \in OfType("render")
  <2>1. exec[w].task.tile \in CountedOf(Job(w)) /\ exec[w].pc # "create"
    BY <1>1, <1>4 DEF Inv, TaskInv, Conforms, OfType, Job, PcsOf, AfterAdd, InGate
  <2>2. Started(Job(w))
    BY <1>1, <2>1, StartedJob
  <2>. QED  BY <1>1, <2>1, <2>2 DEF JobTyped, Started, Ptr
<1>. QED  BY <1>1, <1>2, <1>3, <1>4, KindsOfTask DEF OfType

(* Going to another place of the task is a walk. *)
LEMMA GotoWalks ==
  ASSUME ExecInv, NEW w \in Workers, exec[w].pc # "idle", NEW p, Goto(w, p),
         p \in PcsOf[exec[w].task.type],
         p = "nextBatch" => ~LastBatch(exec[w].task),
         p = "finishZoom" => LastBatch(exec[w].task),
         NEW new \in SUBSET (Tasks \ Known), queued' = queued \cup new,
         UNCHANGED <<running, done>>
  PROVE  \E e : Walks(w, e, new) /\ e.pc = p /\ e.i = exec[w].i
<1>. DEFINE e == [exec[w] EXCEPT !.pc = p]
<1>1. exec[w] \in Working /\ exec[w].task.type \in {"setup", "calc", "render"}
  BY Worker, KindsOfTask
<1>2. p \in {"create", "postCalcs", "count", "exists", "render", "addCurrent"}
            \cup AfterCount \cup AfterAdd
  BY <1>1 DEF PcsOf
<1>3. e \in Working /\ e.pc = p /\ e.task = exec[w].task /\ e.i = exec[w].i
  BY <1>1, <1>2 DEF Working
<1>4. exec' = [exec EXCEPT ![w] = e]
  BY DEF Goto
<1>5. new \subseteq Tasks \ Known
  OBVIOUS
<1>. HIDE DEF e
<1>6. Walks(w, e, new)
  BY <1>3, <1>4, <1>5 DEF Walks
<1>. QED  BY <1>3, <1>6

(* Going on from a post to the next one. *)
Index(w, n) == exec' = [exec EXCEPT ![w].i = n]

LEMMA IndexWalks ==
  ASSUME ExecInv, NEW w \in Workers, exec[w].pc \in {"postCalcs", "postRenders"},
         NEW n \in Nat \ {0}, Index(w, n),
         NEW t \in Tasks, Bag!Submit(t)
  PROVE  \E e : Walks(w, e, {t}) /\ e.pc = exec[w].pc /\ e.i = n
<1>. DEFINE e == [exec[w] EXCEPT !.i = n]
<1>1. exec[w] \in Working /\ exec[w].pc \in PcsOf[exec[w].task.type]
  BY Worker
<1>2. e \in Working /\ e.pc = exec[w].pc /\ e.task = exec[w].task /\ e.i = n
  BY <1>1 DEF Working
<1>3. exec' = [exec EXCEPT ![w] = e]
  BY DEF Index
<1>4. {t} \subseteq Tasks \ Known /\ queued' = queued \cup {t} /\ UNCHANGED <<running, done>>
  BY DEF Bag!Submit, Known
<1>. HIDE DEF e
<1>5. Walks(w, e, {t})
  BY <1>1, <1>2, <1>3, <1>4 DEF Walks
<1>. QED  BY <1>2, <1>5

(* A walk that counts nothing. *)
Passes(p, q) ==
  \/ p = "postCalcs" /\ q = "postCalcs"
  \/ p = "postRenders" /\ q \in {"postRenders", "nextBatch", "finishZoom"}
  \/ p = "nextBatch" /\ q = "return"
  \/ p \in {"exists", "render"} /\ q \in {"render", "addCurrent"}
  \/ p \in InGate \cup {"commit"} /\ q \in InGate \cup {"commit", "return"}

LEMMA PassSets ==
  ASSUME Inv, NEW w \in Workers, NEW e, NEW new, Walks(w, e, new), Passes(exec[w].pc, e.pc)
  PROVE  /\ ExecInv' /\ Known' = Known \cup new
         /\ exec'[w] = e /\ e.task = exec[w].task
         /\ \A v \in Workers \ {w} : exec'[v] = exec[v]
         /\ SetUp' = SetUp /\ Counted' = Counted /\ Added' = Added
         /\ Returned' = Returned \cup {t \in {exec[w].task} : exec[w].pc = "nextBatch"}
         /\ \A j \in Jobs : Remaining(j)' = Remaining(j)
<1>1. ExecInv /\ exec[w].pc # "idle"
  BY DEF Inv, Passes, InGate
<1>2. ExecInv' /\ Known' = Known \cup new
  BY <1>1, WalkExec
<1>3. exec'[w] = e /\ e.task = exec[w].task /\ \A v \in Workers \ {w} : exec'[v] = exec[v]
  BY <1>1 DEF ExecInv, Walks
<1>. DEFINE here == exec[w].task
<1>4. /\ SetUp' = SetUp \cup {t \in {here} : t.type = "setup" /\ e.pc = "postCalcs"}
      /\ Counted' = Counted \cup {t \in {here} : t.type = "calc" /\ e.pc \in AfterCount}
      /\ Returned' = Returned \cup {t \in {here} : t.type = "calc" /\ e.pc = "return"}
      /\ Added' = Added \cup {t \in {here} : t.type = "render" /\ e.pc \in AfterAdd}
  <2>1. /\ exec[w].pc \in {"postCalcs"} => e.pc \in {"postCalcs"}
        /\ exec[w].pc \in AfterCount => e.pc \in AfterCount
        /\ exec[w].pc = "return" => e.pc = "return"
        /\ exec[w].pc \in AfterAdd => e.pc \in AfterAdd
    BY DEF Passes, AfterCount, AfterAdd, InGate
  <2>. QED  BY <1>1, <2>1, WalkSets
<1>5. /\ here.type = "setup" /\ e.pc = "postCalcs" => here \in SetUp
      /\ here.type = "calc" /\ e.pc \in AfterCount => here \in Counted
      /\ here.type = "render" /\ e.pc \in AfterAdd => here \in Added
      /\ here.type = "calc" /\ e.pc = "return" => exec[w].pc = "nextBatch"
  <2>1. /\ here.type = "setup" => here \in OfType("setup")
        /\ here.type = "calc" => here \in OfType("calc")
        /\ here.type = "render" => here \in OfType("render")
        /\ exec[w].pc \in PcsOf[here.type]
    BY <1>1, Worker DEF OfType
  <2>2. /\ here.type = "setup" => exec[w].pc \in {"create", "postCalcs"}
        /\ here.type = "calc" => exec[w].pc \in {"count"} \cup AfterCount
        /\ here.type = "render" => exec[w].pc \in {"exists", "render", "addCurrent"} \cup AfterAdd
    BY <2>1 DEF PcsOf
  <2>3. /\ here.type = "setup" /\ e.pc = "postCalcs" => exec[w].pc = "postCalcs"
        /\ here.type = "calc" /\ e.pc \in AfterCount => exec[w].pc \in AfterCount
        /\ here.type = "render" /\ e.pc \in AfterAdd => exec[w].pc \in AfterAdd
        /\ here.type = "calc" /\ e.pc = "return" => exec[w].pc = "nextBatch"
    BY <2>2 DEF Passes, AfterCount, AfterAdd, InGate
  <2>. QED  BY <1>1, <2>1, <2>3, Came
<1>6. SetUp' = SetUp /\ Counted' = Counted /\ Added' = Added
  BY <1>4, <1>5
<1>7. ASSUME NEW j \in Jobs PROVE Remaining(j)' = Remaining(j)
  <2>1. ASSUME NEW z \in Zooms(j), here = LastCalc(j, z), here.type = "calc", e.pc = "return"
        PROVE  FALSE
    <3>1. ~LastBatch(here)
      BY <1>1, <1>5, <2>1, Worker DEF ExecInv
    <3>. QED  BY <2>1, <3>1, TaskFields DEF LastBatch, LastCalc
  <2>2. \A z \in Zooms(j) : LastCalc(j, z) \in Returned' <=> LastCalc(j, z) \in Returned
    BY <1>4, <2>1
  <2>3. LastCalc(j, 0)' = LastCalc(j, 0) /\ Zooms(j)' = Zooms(j)
    BY DEF Zooms
  <2>. QED  BY <2>2, <2>3 DEF Remaining, LastCalc, Zooms
<1>8. Returned' = Returned \cup {t \in {here} : exec[w].pc = "nextBatch"}
  <2>1. exec[w].pc = "nextBatch" => here.type = "calc" /\ e.pc = "return"
    BY <1>1, Where DEF Passes, InGate, OfType
  <2>. QED  BY <1>4, <1>5, <2>1
<1>. QED  BY <1>2, <1>3, <1>6, <1>7, <1>8

LEMMA PassInv ==
  ASSUME Inv, NEW w \in Workers, NEW e, NEW new, Walks(w, e, new), Passes(exec[w].pc, e.pc),
         \A t \in new : Conforms(t), UNCHANGED jobVars, StoreTyped', UNCHANGED statusVars,
         e.pc \in {"loadCounts", "remove", "destroy"} => GateInv'
  PROVE  Inv'
<1>1. /\ ExecInv' /\ Known' = Known \cup new
      /\ exec'[w] = e /\ e.task = exec[w].task
      /\ \A v \in Workers \ {w} : exec'[v] = exec[v]
      /\ SetUp' = SetUp /\ Counted' = Counted /\ Added' = Added
      /\ \A j \in Jobs : Remaining(j)' = Remaining(j)
  BY PassSets
<1>2. Quiet
  BY <1>1 DEF Quiet, SameJobs, jobVars
<1>3. CASE e.pc \in {"loadCounts", "remove", "destroy"}
  BY <1>1, <1>2, <1>3, QuietInv DEF Inv, statusVars
<1>4. CASE e.pc \notin {"loadCounts", "remove", "destroy"}
  <2>1. GateSame
    BY <1>1, <1>4 DEF GateSame
  <2>. QED  BY <1>1, <1>2, <2>1, OutOfGate
<1>. QED  BY <1>3, <1>4

-----------------------------------------------------------------------------
(* The steps that count nothing and stay out of the gate. *)
LEMMA SameSetsQuiet ==
  ASSUME SameSets, \A t \in Known' : t \in Known \/ Conforms(t), UNCHANGED jobVars
  PROVE  Quiet
<1>1. \A j \in Jobs : Remaining(j)' = Remaining(j)
  BY DEF SameSets, Remaining, LastCalc, Zooms
<1>. QED  BY <1>1 DEF Quiet, SameJobs, SameSets, jobVars

LEMMA StoreKept == ASSUME Inv, UNCHANGED storeVars PROVE StoreTyped'
BY Types DEF Inv, StoreTyped, storeVars

LEMMA StartPrerenderInv ==
  ASSUME Inv, NEW j \in Jobs, StartPrerender(j), UNCHANGED statusVars
  PROVE  Inv'
<1>1. /\ SetupTask(j) \in Tasks \ Known /\ queued' = queued \cup {SetupTask(j)}
      /\ UNCHANGED <<exec, running, done>> /\ UNCHANGED jobVars /\ UNCHANGED storeVars
  BY TaskKinds DEF StartPrerender, Bag!Submit, Known, OfType
<1>2. ExecInv' /\ SameSets /\ Known' = Known \cup {SetupTask(j)}
  BY <1>1, StandSets DEF Inv
<1>3. Conforms(SetupTask(j))
  BY TaskFields DEF Conforms
<1>4. Quiet
  BY <1>1, <1>2, <1>3, SameSetsQuiet
<1>5. GateSame
  BY <1>1 DEF GateSame
<1>. QED  BY <1>1, <1>2, <1>4, <1>5, StoreKept, OutOfGate

LEMMA TakeInv ==
  ASSUME Inv, NEW w \in Workers, NEW t \in queued, Take(w, t), UNCHANGED statusVars
  PROVE  Inv'
<1>1. /\ exec[w] = Idle /\ queued' = queued \ {t} /\ running' = running \cup {t}
      /\ UNCHANGED done /\ UNCHANGED jobVars /\ UNCHANGED storeVars
      /\ exec' = [exec EXCEPT ![w] = [pc |-> FirstPc[t.type], task |-> t, i |-> 1]]
  BY DEF Take, Bag!Start
<1>2. /\ ExecInv' /\ SameSets /\ Known' = Known
      /\ exec'[w].pc \in {"create", "count", "exists"}
      /\ \A v \in Workers \ {w} : exec'[v] = exec[v]
  BY <1>1, TakeSets DEF Inv
<1>3. Quiet
  BY <1>1, <1>2, SameSetsQuiet
<1>4. GateSame
  BY <1>2 DEF GateSame
<1>. QED  BY <1>1, <1>2, <1>3, <1>4, StoreKept, OutOfGate

LEMMA ReturnInv ==
  ASSUME Inv, NEW w \in Workers, exec[w].pc \in {"postCalcs", "return"}, Return(w),
         UNCHANGED <<storeVars, jobVars>>, UNCHANGED statusVars
  PROVE  Inv'
<1>1. /\ ExecInv' /\ SameSets /\ Known' = Known
      /\ exec'[w] = Idle /\ \A v \in Workers \ {w} : exec'[v] = exec[v]
  BY ReturnSets DEF Inv
<1>2. Quiet
  BY <1>1, SameSetsQuiet
<1>3. GateSame
  BY <1>1 DEF GateSame, Idle
<1>. QED  BY <1>1, <1>2, <1>3, StoreKept, OutOfGate

LEMMA PostCalcWalk ==
  ASSUME Inv, NEW w \in Workers, PostCalc(w)
  PROVE  LET t == CalcTask(Job(w), exec[w].i, 1) IN
         /\ exec[w].pc = "postCalcs" /\ UNCHANGED storeVars /\ UNCHANGED jobVars
         /\ \/ exec[w].i \notin Zooms(Job(w)) /\ Return(w)
            \/ /\ exec[w].i \in Zooms(Job(w)) /\ t \notin Known /\ Conforms(t)
               /\ \E e : Walks(w, e, {t}) /\ e.pc = "postCalcs" /\ e.i = exec[w].i + 1
<1>. DEFINE j == Job(w)
            z == exec[w].i
            t == CalcTask(j, z, 1)
            n == z + 1
<1>1. /\ exec[w].pc = "postCalcs" /\ UNCHANGED storeVars /\ UNCHANGED jobVars
      /\ z \in Nat \ {0} /\ j \in Jobs /\ Started(j)
  BY Worker, Where, StartedWorker DEF PostCalc, At, Inv
<1>2. CASE z \notin Zooms(j)
  BY <1>1, <1>2 DEF PostCalc
<1>3. CASE z \in Zooms(j)
  <2>1. Bag!Submit(t) /\ Index(w, n)
    BY <1>3 DEF PostCalc, Index
  <2>2. t \in Tasks /\ t.job = j /\ t.type = "calc" /\ t.batch = 1
    BY <1>1, <1>3, JobData, TaskKinds, TaskFields DEF OfType
  <2>3. Conforms(t) /\ t \notin Known
    BY <1>1, <2>1, <2>2 DEF Conforms, Bag!Submit, Known
  <2>4. n \in Nat \ {0}
    BY <1>1
  <2>. HIDE DEF t, n
  <2>5. \E e : Walks(w, e, {t}) /\ e.pc = exec[w].pc /\ e.i = n
    BY <1>1, <2>1, <2>2, <2>4, IndexWalks DEF Inv
  <2>. QED  BY <1>1, <1>3, <2>3, <2>5 DEF t, n
<1>. QED  BY <1>2, <1>3

LEMMA PostCalcInv ==
  ASSUME Inv, NEW w \in Workers, PostCalc(w), UNCHANGED statusVars
  PROVE  Inv'
<1>. DEFINE t == CalcTask(Job(w), exec[w].i, 1)
<1>1. /\ exec[w].pc = "postCalcs" /\ UNCHANGED storeVars /\ UNCHANGED jobVars
      /\ \/ Return(w)
         \/ Conforms(t) /\ \E e : Walks(w, e, {t}) /\ e.pc = "postCalcs"
  BY PostCalcWalk
<1>. HIDE DEF t
<1>2. CASE Return(w)
  BY <1>1, <1>2, ReturnInv
<1>3. ASSUME Conforms(t), NEW e, Walks(w, e, {t}), e.pc = "postCalcs" PROVE Inv'
  <2>1. Passes(exec[w].pc, e.pc) /\ e.pc \notin {"loadCounts", "remove", "destroy"}
    BY <1>1, <1>3 DEF Passes
  <2>. QED  BY <1>1, <1>3, <2>1, StoreKept, PassInv
<1>. QED  BY <1>1, <1>2, <1>3

LEMMA PostRenderWalk ==
  ASSUME Inv, NEW w \in Workers, PostRender(w)
  PROVE  LET c == exec[w].task
             i == exec[w].i
             t == RenderTask(c.job, Batch(c)[i]) IN
         /\ exec[w].pc = "postRenders" /\ UNCHANGED storeVars /\ UNCHANGED jobVars
         /\ \/ /\ ~(i <= Len(Batch(c)))
               /\ \E e : Walks(w, e, {}) /\ e.pc \in {"nextBatch", "finishZoom"}
            \/ /\ i <= Len(Batch(c)) /\ Conforms(t)
               /\ \E e : Walks(w, e, {t}) /\ e.pc = "postRenders" /\ e.i = i + 1
<1>. DEFINE i == exec[w].i
            c == exec[w].task
<1>1. /\ exec[w].pc = "postRenders" /\ UNCHANGED storeVars /\ UNCHANGED jobVars
      /\ i \in Nat \ {0} /\ c \in OfType("calc") /\ BatchOf(w) = Batch(c)
      /\ c \in Counted /\ Job(w) = c.job /\ c.job \in Jobs /\ c.type = "calc"
  BY Worker, Where, Came DEF PostRender, At, Inv, BatchOf, Batch, Job, OfType, AfterCount
<1>2. CASE ~(i <= Len(Batch(c)))
  <2>. DEFINE p == IF LastBatch(c) THEN "finishZoom" ELSE "nextBatch"
  <2>1. Goto(w, p) /\ UNCHANGED bagVars
    BY <1>1, <1>2 DEF PostRender
  <2>2. /\ p \in PcsOf[c.type] /\ p \in {"nextBatch", "finishZoom"}
        /\ p = "nextBatch" => ~LastBatch(c)
        /\ p = "finishZoom" => LastBatch(c)
    BY <1>1 DEF PcsOf, AfterCount
  <2>. HIDE DEF p
  <2>3. {} \in SUBSET (Tasks \ Known) /\ queued' = queued \cup {} /\ UNCHANGED <<running, done>>
    BY <2>1 DEF bagVars
  <2>4. \E e : Walks(w, e, {}) /\ e.pc = p
    BY <1>1, <2>1, <2>2, <2>3, GotoWalks DEF Inv
  <2>. QED  BY <1>1, <1>2, <2>2, <2>4
<1>3. CASE i <= Len(Batch(c))
  <2>. DEFINE t == RenderTask(c.job, Batch(c)[i])
              n == i + 1
  <2>1. Bag!Submit(t) /\ Index(w, n) /\ n \in Nat \ {0}
    BY <1>1, <1>3 DEF PostRender, Index
  <2>2. Batch(c)[i] \in Elems(Batch(c)) /\ Batch(c)[i] \in TilesOf(c.job)
    <3>1. /\ DOMAIN Batch(c) = 1..Len(Batch(c)) /\ Len(Batch(c)) \in Nat
          /\ Elems(Batch(c)) \subseteq TilesOf(c.job)
      BY <1>1, BatchTiles
    <3>2. i \in DOMAIN Batch(c)
      BY <1>1, <1>3, <3>1
    <3>3. Batch(c)[i] \in Elems(Batch(c))
      BY <3>2 DEF Elems
    <3>. QED  BY <3>1, <3>3
  <2>3. t \in Tasks /\ t.type = "render" /\ t.tile = Batch(c)[i] /\ t.job = c.job
    BY <1>1, <2>2, TaskKinds, TaskFields DEF OfType
  <2>4. Batch(c)[i] \in CountedOf(c.job)
    BY <1>1, <2>2 DEF CountedOf
  <2>5. Conforms(t)
    BY <2>3, <2>4 DEF Conforms
  <2>. HIDE DEF t, n
  <2>6. \E e : Walks(w, e, {t}) /\ e.pc = exec[w].pc /\ e.i = n
    BY <1>1, <2>1, <2>3, IndexWalks DEF Inv
  <2>. QED  BY <1>1, <1>3, <2>5, <2>6 DEF t, n
<1>. QED  BY <1>2, <1>3

LEMMA PostRenderInv ==
  ASSUME Inv, NEW w \in Workers, PostRender(w), UNCHANGED statusVars
  PROVE  Inv'
<1>1. /\ exec[w].pc = "postRenders" /\ UNCHANGED storeVars /\ UNCHANGED jobVars
      /\ \E e, new : /\ Walks(w, e, new) /\ \A t \in new : Conforms(t)
                     /\ e.pc \in {"postRenders", "nextBatch", "finishZoom"}
  <2>. DEFINE t == RenderTask(exec[w].task.job, Batch(exec[w].task)[exec[w].i])
  <2>1. /\ exec[w].pc = "postRenders" /\ UNCHANGED storeVars /\ UNCHANGED jobVars
        /\ \/ \E e : Walks(w, e, {}) /\ e.pc \in {"nextBatch", "finishZoom"}
           \/ Conforms(t) /\ \E e : Walks(w, e, {t}) /\ e.pc = "postRenders"
    BY PostRenderWalk
  <2>. HIDE DEF t
  <2>2. \A u \in {t} : u = t
    OBVIOUS
  <2>3. CASE \E e : Walks(w, e, {}) /\ e.pc \in {"nextBatch", "finishZoom"}
    BY <2>1, <2>3
  <2>4. CASE Conforms(t) /\ \E e : Walks(w, e, {t}) /\ e.pc = "postRenders"
    BY <2>1, <2>2, <2>4
  <2>. QED  BY <2>1, <2>3, <2>4
<1>2. PICK e, new : /\ Walks(w, e, new) /\ \A t \in new : Conforms(t)
                    /\ e.pc \in {"postRenders", "nextBatch", "finishZoom"}
  BY <1>1
<1>3. Passes(exec[w].pc, e.pc) /\ e.pc \notin {"loadCounts", "remove", "destroy"}
  BY <1>1, <1>2 DEF Passes
<1>. QED  BY <1>1, <1>2, <1>3, StoreKept, PassInv

LEMMA PostNextBatchWalk ==
  ASSUME Inv, NEW w \in Workers, PostNextBatch(w)
  PROVE  LET c == exec[w].task
             t == CalcTask(c.job, c.zoom, c.batch + 1) IN
         /\ exec[w].pc = "nextBatch" /\ UNCHANGED storeVars /\ UNCHANGED jobVars
         /\ c \in OfType("calc") /\ c.batch + 1 \in DOMAIN Batches[c.job][c.zoom]
         /\ Conforms(t) /\ t \notin Known
         /\ \E e : Walks(w, e, {t}) /\ e.pc = "return"
<1>. DEFINE c == exec[w].task
            t == CalcTask(c.job, c.zoom, c.batch + 1)
<1>1. /\ exec[w].pc = "nextBatch" /\ UNCHANGED storeVars /\ UNCHANGED jobVars
      /\ c \in OfType("calc") /\ c \in Counted /\ c.type = "calc" /\ c \in Known
      /\ c \in running /\ Active(w)
  BY Worker, Where, Came DEF PostNextBatch, At, Inv, OfType, AfterCount
<1>2. Bag!Submit(t) /\ Goto(w, "return")
  BY DEF PostNextBatch
<1>3. /\ c.job \in Jobs /\ c.zoom \in Zooms(c.job) /\ c.batch \in 1..Len(Batches[c.job][c.zoom])
      /\ c.batch # Len(Batches[c.job][c.zoom]) /\ c = CalcTask(c.job, c.zoom, c.batch)
      /\ Len(Batches[c.job][c.zoom]) \in Nat
      /\ DOMAIN Batches[c.job][c.zoom] = 1..Len(Batches[c.job][c.zoom])
  <2>1. ~LastBatch(c)
    BY <1>1 DEF Inv, ExecInv
  <2>. QED  BY <1>1, <2>1, KindsOfTask, JobData DEF LastBatch
<1>4. c.batch + 1 \in DOMAIN Batches[c.job][c.zoom]
  BY <1>3
<1>5. /\ t \in Tasks /\ t.type = "calc" /\ t.job = c.job /\ t.zoom = c.zoom
      /\ t.batch = c.batch + 1
  BY <1>3, <1>4, TaskKinds, TaskFields DEF OfType
<1>6. Conforms(t)
  <2>1. Conforms(c)
    BY <1>1 DEF Inv, TaskInv
  <2>2. \A b \in 1..c.batch : b = c.batch \/ b \in 1..c.batch - 1
    BY <1>3
  <2>3. t.batch - 1 = c.batch
    BY <1>3, <1>5
  <2>. QED  BY <1>1, <1>3, <1>5, <2>1, <2>2, <2>3 DEF Conforms
<1>7. /\ {t} \in SUBSET (Tasks \ Known) /\ queued' = queued \cup {t}
      /\ UNCHANGED <<running, done>> /\ t \notin Known
  BY <1>2, <1>5 DEF Bag!Submit, Known
<1>. HIDE DEF t
<1>8. \E e : Walks(w, e, {t}) /\ e.pc = "return"
  BY <1>1, <1>2, <1>7, GotoWalks DEF Inv, PcsOf, AfterCount
<1>. QED  BY <1>1, <1>4, <1>6, <1>7, <1>8 DEF t

LEMMA PostNextBatchInv ==
  ASSUME Inv, NEW w \in Workers, PostNextBatch(w), UNCHANGED statusVars
  PROVE  Inv'
<1>. DEFINE t == CalcTask(exec[w].task.job, exec[w].task.zoom, exec[w].task.batch + 1)
<1>1. /\ exec[w].pc = "nextBatch" /\ UNCHANGED storeVars /\ UNCHANGED jobVars
      /\ Conforms(t) /\ \E e : Walks(w, e, {t}) /\ e.pc = "return"
  BY PostNextBatchWalk
<1>. HIDE DEF t
<1>2. PICK e : Walks(w, e, {t}) /\ e.pc = "return"
  BY <1>1
<1>3. Passes(exec[w].pc, e.pc) /\ e.pc \notin {"loadCounts", "remove", "destroy"}
  BY <1>1, <1>2 DEF Passes
<1>. QED  BY <1>1, <1>2, <1>3, StoreKept, PassInv

(* A render goes from a place to the next and posts nothing. *)
LEMMA RenderGoto ==
  ASSUME Inv, NEW w \in Workers, NEW p, Goto(w, p), UNCHANGED bagVars,
         exec[w].pc \in {"exists", "render", "commit"} \cup InGate, Passes(exec[w].pc, p)
  PROVE  \E e : Walks(w, e, {}) /\ e.pc = p
<1>1. /\ exec[w].task.type = "render" /\ exec[w].pc # "idle"
      /\ p \in {"exists", "render", "addCurrent"} \cup AfterAdd
      /\ p # "nextBatch" /\ p # "finishZoom"
  BY Where DEF Inv, Passes, OfType, InGate, AfterAdd
<1>2. p \in PcsOf[exec[w].task.type]
  BY <1>1 DEF PcsOf
<1>3. {} \in SUBSET (Tasks \ Known) /\ queued' = queued \cup {} /\ UNCHANGED <<running, done>>
  BY DEF bagVars
<1>. QED  BY <1>1, <1>2, <1>3, GotoWalks DEF Inv

LEMMA CheckExistsInv ==
  ASSUME Inv, NEW w \in Workers, CheckExists(w), UNCHANGED statusVars
  PROVE  Inv'
<1>1. PICK p \in {"addCurrent", "render"} :
        /\ exec[w].pc = "exists" /\ Goto(w, p)
        /\ UNCHANGED bagVars /\ UNCHANGED storeVars /\ UNCHANGED jobVars
  BY DEF CheckExists, At
<1>2. Passes(exec[w].pc, p)
  BY <1>1 DEF Passes
<1>3. PICK e : Walks(w, e, {}) /\ e.pc = p
  BY <1>1, <1>2, RenderGoto
<1>. QED  BY <1>1, <1>2, <1>3, StoreKept, PassInv

LEMMA RenderInv ==
  ASSUME Inv, NEW w \in Workers, Render(w), UNCHANGED statusVars
  PROVE  Inv'
<1>1. /\ exec[w].pc = "render" /\ Goto(w, "addCurrent") /\ UNCHANGED bagVars
      /\ UNCHANGED jobVars
  BY DEF Render, At
<1>2. Passes(exec[w].pc, "addCurrent")
  BY <1>1 DEF Passes
<1>3. PICK e : Walks(w, e, {}) /\ e.pc = "addCurrent"
  BY <1>1, <1>2, RenderGoto
<1>4. StoreTyped'
  <2>1. StoreTyped
    BY Types DEF Inv
  <2>2. exec[w].task.tile \in Tiles
    BY <1>1, Where, KindsOfTask, TileBatch DEF Inv
  <2>. QED  BY <2>1, <2>2 DEF Render, StoreTyped, Store!Put, storeVars
<1>. QED  BY <1>1, <1>2, <1>3, <1>4, PassInv

LEMMA CommitInv ==
  ASSUME Inv, NEW w \in Workers, Commit(w), UNCHANGED statusVars
  PROVE  Inv'
<1>1. /\ exec[w].pc = "commit" /\ Goto(w, "return") /\ UNCHANGED bagVars
      /\ UNCHANGED jobVars /\ StoreTyped'
  BY Types DEF Commit, At, Store!RequestCommit, Inv, StoreTyped
<1>2. Passes(exec[w].pc, "return")
  BY <1>1 DEF Passes
<1>3. PICK e : Walks(w, e, {}) /\ e.pc = "return"
  BY <1>1, <1>2, RenderGoto
<1>. QED  BY <1>1, <1>2, <1>3, PassInv

LEMMA WriteBatchInv ==
  ASSUME Inv, WriteBatch, UNCHANGED statusVars
  PROVE  Inv'
<1>1. UNCHANGED bagVars /\ UNCHANGED exec /\ UNCHANGED jobVars
  BY DEF WriteBatch
<1>2. {} \in SUBSET (Tasks \ Known) /\ queued' = queued \cup {} /\ UNCHANGED <<exec, running, done>>
  BY <1>1 DEF bagVars
<1>3. ExecInv' /\ SameSets /\ Known' = Known \cup {}
  BY <1>2, StandSets DEF Inv
<1>4. Quiet
  BY <1>1, <1>3, SameSetsQuiet
<1>5. GateSame
  BY <1>1 DEF GateSame
<1>6. StoreTyped'
  BY Types DEF Inv, WriteBatch, StoreTyped, Store!Take, Store!Store
<1>. QED  BY <1>1, <1>3, <1>4, <1>5, <1>6, OutOfGate

(* The request for the status moves along the list. *)
LEMMA GetStatusInv ==
  ASSUME Inv, GetStatus
  PROVE  Inv'
<1>1. /\ UNCHANGED bagVars /\ UNCHANGED storeVars /\ UNCHANGED exec /\ UNCHANGED jobVars
      /\ StatusLock \/ StatusNext \/ StatusUnlock
  BY DEF GetStatus
<1>2. {} \in SUBSET (Tasks \ Known) /\ queued' = queued \cup {} /\ UNCHANGED <<exec, running, done>>
  BY <1>1 DEF bagVars
<1>3. ExecInv' /\ SameSets /\ Known' = Known \cup {}
  BY <1>2, StandSets DEF Inv
<1>4. Quiet /\ StoreTyped'
  BY <1>1, <1>3, SameSetsQuiet, StoreKept
<1>5. GateInv'
  <2>1. GateSame
    BY <1>1 DEF GateSame
  <2>2. \A j \in Jobs : /\ AllZooms(j) => AllZooms(j)'
                        /\ Complete(j) => Complete(j)'
    BY <1>3, <1>4, SameJobsInv DEF Quiet
  <2>. QED  BY <1>1, <1>3, <2>1, <2>2, GateKept DEF jobVars
<1>6. TaskInv' /\ CountersInv' /\ OwnerInv'
  BY <1>3, <1>4, QuietInv
<1>7. StatusTyped /\ JobTyped
  BY Types DEF Inv
<1>8. StatusTyped'
  <2>1. Len(prerenders) \in Nat /\ \A i \in DOMAIN prerenders : prerenders[i] \in Blocks
        /\ prerenders' = prerenders /\ DOMAIN prerenders = 1..Len(prerenders)
    BY <1>1, <1>7 DEF JobTyped, jobVars
  <2>2. CASE StatusLock
    BY <1>7, <2>1, <2>2, PrerenderAssumption DEF StatusLock, ListUnlocked, StatusTyped
  <2>3. CASE StatusNext
    BY <1>7, <2>1, <2>3 DEF StatusNext, StatusTyped
  <2>4. CASE StatusUnlock
    BY <1>7, <2>1, <2>4 DEF StatusUnlock, StatusTyped
  <2>. QED  BY <1>1, <2>2, <2>3, <2>4
<1>9. TypeOK'
  <2>1. JobTyped'
    BY <1>1, <1>7 DEF JobTyped, jobVars
  <2>2. ExecInv' => (StoreTyped' /\ JobTyped' /\ StatusTyped' => TypeOK')
    BY Types, PTL
  <2>. QED  BY <1>3, <1>4, <1>8, <2>1, <2>2
<1>10. ListInv'
  <2>1. \A j \in Jobs : /\ Started(j)' <=> Started(j)
                        /\ Over(j)' <=> Over(j)
    BY <1>3, <1>4, SameJobsInv DEF Quiet
  <2>2. job_stats' # "none" => reading' # 0 /\ job_stats' \in Elems(prerenders)
    <3>1. job_stats # "none" => reading # 0 /\ job_stats \in Elems(prerenders)
      BY DEF Inv, ListInv
    <3>2. CASE StatusLock
      BY <3>1, <3>2 DEF StatusLock, ListUnlocked
    <3>3. CASE StatusNext
      BY <1>7, <3>3 DEF StatusNext, Elems, StatusTyped
    <3>4. CASE StatusUnlock
      BY <3>4 DEF StatusUnlock
    <3>. QED  BY <1>1, <3>2, <3>3, <3>4
  <2>. QED  BY <1>1, <2>1, <2>2 DEF Inv, ListInv, jobVars
<1>. QED  BY <1>3, <1>5, <1>6, <1>9, <1>10 DEF Inv

LEMMA StutterInv ==
  ASSUME Inv, UNCHANGED vars
  PROVE  Inv'
<1>1. UNCHANGED bagVars /\ UNCHANGED storeVars /\ UNCHANGED exec /\ UNCHANGED jobVars
      /\ UNCHANGED statusVars
  BY DEF vars
<1>2. {} \in SUBSET (Tasks \ Known) /\ queued' = queued \cup {} /\ UNCHANGED <<exec, running, done>>
  BY <1>1 DEF bagVars
<1>3. ExecInv' /\ SameSets /\ Known' = Known \cup {}
  BY <1>2, StandSets DEF Inv
<1>4. Quiet /\ GateSame
  BY <1>1, <1>3, SameSetsQuiet DEF GateSame
<1>. QED  BY <1>1, <1>3, <1>4, StoreKept, OutOfGate

-----------------------------------------------------------------------------
(* The gate of a render. *)
LEMMA GateStep ==
  ASSUME Inv, NEW w \in Workers, NEW e, Walks(w, e, {}), Passes(exec[w].pc, e.pc),
         UNCHANGED jobVars, UNCHANGED storeVars, UNCHANGED statusVars,
         e.pc \in {"return", "loadCounts", "remove"},
         e.pc = "loadCounts" => AllZooms(Job(w)),
         e.pc = "remove" => Over(Job(w))
  PROVE  Inv'
<1>1. /\ ExecInv' /\ Known' = Known
      /\ exec'[w] = e /\ e.task = exec[w].task
      /\ \A v \in Workers \ {w} : exec'[v] = exec[v]
      /\ SetUp' = SetUp /\ Counted' = Counted /\ Added' = Added
      /\ \A j \in Jobs : Remaining(j)' = Remaining(j)
  BY SMTT(30), PassSets
<1>2. Quiet
  BY <1>1 DEF Quiet, SameJobs, jobVars
<1>3. \A j \in Jobs : /\ AllZooms(j)' <=> AllZooms(j)
                      /\ Over(j)' <=> Over(j)
  BY <1>1, <1>2, SameJobsInv DEF Quiet
<1>4. GateInv'
  <2>1. ASSUME NEW v \in Workers
        PROVE  /\ Job(v)' = Job(v)
               /\ Ptr(v)' = Ptr(v)
               /\ At(v, "loadCounts")' => AllZooms(Job(v))
               /\ exec'[v].pc \in {"remove", "destroy"} => Over(Job(v))
               /\ At(v, "destroy")' => Ptr(v) \notin Elems(prerenders)
               /\ exec'[v].pc \in {"loadCounts", "remove", "destroy"} => Job(v) \in Jobs
    <3>0. exec[w].pc # "idle"
      BY DEF Passes, InGate
    <3>1. Job(v)' = Job(v)
      BY <1>1 DEF Job
    <3>2. Ptr(v)' = Ptr(v)
      BY <3>1 DEF Ptr, jobVars
    <3>3. CASE v = w
      BY <1>1, <3>0, <3>1, <3>2, <3>3, Where DEF At, Inv
    <3>4. CASE v # w
      <4>1. exec'[v] = exec[v]
        BY <1>1, <3>4
      <4>. QED  BY <3>1, <3>2, <4>1, Where DEF At, Inv, GateInv
    <3>. QED  BY <3>3, <3>4
  <2>2. Elems(prerenders)' = Elems(prerenders)
    BY DEF jobVars
  <2>. QED  BY <1>3, <2>1, <2>2 DEF GateInv, At, Job, Ptr
<1>. QED  BY <1>1, <1>2, <1>4, QuietInv, StoreKept DEF Inv, statusVars

LEMMA GateGoto ==
  ASSUME Inv, NEW w \in Workers, NEW p \in {"return", "loadCounts", "remove"}, Goto(w, p),
         exec[w].pc \in {"loadRemain", "loadCounts"},
         UNCHANGED <<bagVars, storeVars, jobVars>>, UNCHANGED statusVars,
         p = "loadCounts" => AllZooms(Job(w)),
         p = "remove" => Over(Job(w))
  PROVE  Inv'
<1>1. UNCHANGED bagVars /\ UNCHANGED storeVars /\ UNCHANGED jobVars
  OBVIOUS
<1>2. Passes(exec[w].pc, p) /\ exec[w].pc \in InGate
  BY DEF Passes, InGate
<1>3. PICK e : Walks(w, e, {}) /\ e.pc = p
  BY <1>1, <1>2, RenderGoto
<1>. QED  BY <1>1, <1>2, <1>3, GateStep

(* Counters that are not the job's own any more were freed at its end.     *)
LEMMA GateOwner ==
  ASSUME Inv, NEW w \in Workers, exec[w].pc \in InGate
  PROVE  /\ Job(w) \in Jobs /\ Ptr(w) \in Blocks
         /\ Alive(Job(w)) \/ Over(Job(w))
         /\ owner[Ptr(w)] = "free" => Over(Job(w))
<1>1. Job(w) \in Jobs /\ Started(Job(w)) /\ Ptr(w) \in Blocks
  BY Where, StartedWorker DEF Inv, InGate
<1>2. "free" \notin Jobs
  BY PrerenderAssumption
<1>. QED  BY <1>1, <1>2 DEF Inv, OwnerInv, Alive, Ptr

LEMMA RemainingFinite ==
  ASSUME NEW j \in Jobs
  PROVE  /\ IsFiniteSet(Remaining(j)) /\ Cardinality(Remaining(j)) \in Nat
         /\ Cardinality(Remaining(j)) = 0 <=> AllZooms(j)
<1>1. Zooms(j) = 1..Len(Batches[j]) /\ Len(Batches[j]) \in Nat
  BY JobData
<1>2. IsFiniteSet(1..Len(Batches[j]))
  BY <1>1, FS_Interval
<1>3. Remaining(j) \in SUBSET (1..Len(Batches[j]))
  BY <1>1 DEF Remaining
<1>4. IsFiniteSet(Remaining(j))
  BY <1>2, <1>3, FS_Subset
<1>. QED  BY <1>4, FS_EmptySet, FS_CardinalityType DEF AllZooms

LEMMA LoadRemainInv ==
  ASSUME Inv, NEW w \in Workers, LoadRemain(w), UNCHANGED statusVars
  PROVE  Inv'
<1>. DEFINE j == Job(w)
<1>1. /\ exec[w].pc = "loadRemain" /\ Gate(w, counters[Ptr(w)].remain = 0, "loadCounts")
      /\ UNCHANGED <<bagVars, storeVars, jobVars>>
  BY DEF LoadRemain, At
<1>2. /\ j \in Jobs /\ Ptr(w) \in Blocks
      /\ Alive(j) \/ Over(j)
      /\ owner[Ptr(w)] = "free" => Over(j)
  BY <1>1, GateOwner DEF InGate
<1>3. counters[Ptr(w)].remain = 0 \/ owner[Ptr(w)] = "free" => AllZooms(j)
  <2>1. Alive(j) => counters[Ptr(w)].remain = Cardinality(Remaining(j))
    <3>. HIDE DEF j
    <3>1. Alive(j) => counters[stats[j]] = [num    |-> Cardinality(CountedOf(j)),
                                            cur    |-> Cardinality(rendered \cap TilesOf(j)),
                                            remain |-> Cardinality(Remaining(j))]
      BY <1>2 DEF Inv, CountersInv
    <3>2. Ptr(w) = stats[j]
      BY DEF Ptr, j
    <3>. QED  BY <3>1, <3>2
  <2>. QED  BY <1>2, <2>1, RemainingFinite DEF Over
<1>4. CASE Goto(w, "return")
  BY <1>1, <1>4, GateGoto
<1>5. CASE Goto(w, "loadCounts") /\ AllZooms(j)
  BY <1>1, <1>5, GateGoto
<1>. QED  BY <1>1, <1>3, <1>4, <1>5 DEF Gate

(* When every zoom is finished, every tile has been counted. *)
LEMMA AllCounted ==
  ASSUME Inv, NEW j \in Jobs, AllZooms(j)
  PROVE  CountedOf(j) = TilesOf(j)
<1>1. CountedOf(j) \subseteq TilesOf(j)
  BY StartedJob
<1>2. ASSUME NEW c \in OfType("calc"), c.job = j
      PROVE  c \in Counted
  <2>. DEFINE d == LastCalc(j, c.zoom)
  <2>1. /\ c.zoom \in Zooms(j) /\ c.batch \in 1..Len(Batches[j][c.zoom])
        /\ c = CalcTask(j, c.zoom, c.batch) /\ Len(Batches[j][c.zoom]) \in Nat
    BY <1>2, KindsOfTask, JobData
  <2>2. d \in Returned
    BY <2>1 DEF AllZooms, Remaining
  <2>3. d \in Counted /\ d \in Known
    <3>1. d \in Counted
      BY <2>2 DEF Returned, Counted, Reached, AfterCount
    <3>2. "idle" \notin AfterCount
      BY DEF AfterCount
    <3>. QED  BY <3>1, <3>2, Worker DEF Inv, Counted, Reached, Known
  <2>4. d.type = "calc" /\ d.job = j /\ d.zoom = c.zoom /\ d.batch = Len(Batches[j][c.zoom])
    BY TaskFields DEF LastCalc
  <2>5. CASE c.batch = Len(Batches[j][c.zoom])
    BY <2>1, <2>3, <2>5 DEF LastCalc
  <2>6. CASE c.batch # Len(Batches[j][c.zoom])
    <3>1. c.batch \in 1..d.batch - 1
      BY <2>1, <2>4, <2>6
    <3>2. Conforms(d)
      BY <2>3 DEF Inv, TaskInv
    <3>. QED  BY <2>1, <2>4, <3>1, <3>2 DEF Conforms
  <2>. QED  BY <2>5, <2>6
<1>3. TilesOf(j) \subseteq CountedOf(j)
  BY <1>2, TileBatch DEF CountedOf
<1>. QED  BY <1>1, <1>3

LEMMA LoadCountsInv ==
  ASSUME Inv, NEW w \in Workers, LoadCounts(w), UNCHANGED statusVars
  PROVE  Inv'
<1>. DEFINE j == Job(w)
<1>1. /\ exec[w].pc = "loadCounts"
      /\ Gate(w, counters[Ptr(w)].cur = counters[Ptr(w)].num, "remove")
      /\ UNCHANGED <<bagVars, storeVars, jobVars>>
  BY DEF LoadCounts, At
<1>2. /\ j \in Jobs /\ Ptr(w) \in Blocks
      /\ Alive(j) \/ Over(j)
      /\ owner[Ptr(w)] = "free" => Over(j)
  BY <1>1, GateOwner DEF InGate
<1>3. counters[Ptr(w)].cur = counters[Ptr(w)].num \/ owner[Ptr(w)] = "free" => Over(j)
  <2>. SUFFICES ASSUME counters[Ptr(w)].cur = counters[Ptr(w)].num, Alive(j)
                PROVE  Over(j)
    BY <1>2
  <2>1. Cardinality(rendered \cap TilesOf(j)) = Cardinality(CountedOf(j))
    <3>1. Ptr(w) = stats[j]
      BY DEF Ptr
    <3>. HIDE DEF j
    <3>2. counters[stats[j]] = [num    |-> Cardinality(CountedOf(j)),
                                cur    |-> Cardinality(rendered \cap TilesOf(j)),
                                remain |-> Cardinality(Remaining(j))]
      BY <1>2 DEF Inv, CountersInv
    <3>. QED  BY <3>1, <3>2
  <2>2. rendered \cap TilesOf(j) \in SUBSET CountedOf(j) /\ IsFiniteSet(CountedOf(j))
    BY <1>2, StartedJob DEF Inv, CountersInv
  <2>3. CountedOf(j) = rendered \cap TilesOf(j)
    BY <2>1, <2>2, FS_Subset
  <2>4. AllZooms(j)
    BY <1>1 DEF Inv, GateInv, At
  <2>5. CountedOf(j) = TilesOf(j)
    BY <1>2, <2>4, AllCounted
  <2>. QED  BY <2>3, <2>4, <2>5 DEF Over, Complete
<1>4. CASE Goto(w, "return")
  BY <1>1, <1>4, GateGoto
<1>5. CASE Goto(w, "remove") /\ Over(j)
  BY <1>1, <1>5, GateGoto
<1>. QED  BY <1>1, <1>3, <1>4, <1>5 DEF Gate

-----------------------------------------------------------------------------
(* The steps that write counters. *)
CountsOf(j) == [num    |-> Cardinality(CountedOf(j)),
                cur    |-> Cardinality(rendered \cap TilesOf(j)),
                remain |-> Cardinality(Remaining(j))]

LEMMA Counts ==
  ASSUME Inv, NEW j \in Jobs
  PROVE  /\ Alive(j) => counters[stats[j]] = CountsOf(j) /\ stats[j] \in Blocks
         /\ \A k \in Jobs : Alive(j) /\ Alive(k) /\ stats[j] = stats[k] => j = k
         /\ Started(j) /\ ~Over(j) => Alive(j)
BY Types DEF Inv, CountersInv, OwnerInv, Alive, CountsOf, JobTyped, Started

(* A step that counts, finishes a zoom or adds one keeps the rest. *)
LEMMA CounterStep ==
  ASSUME Inv, ExecInv', GateSame, Known' = Known,
         UNCHANGED <<owner, stats, prerenders>>, UNCHANGED storeVars, UNCHANGED statusVars,
         counters' \in [Blocks -> [num : Nat, cur : Nat, remain : Nat]],
         rendered \subseteq rendered', rendered' \subseteq Tiles,
         SetUp' = SetUp, Counted \subseteq Counted',
         \A r \in OfType("render") : r.tile \in rendered' <=> r \in Added',
         \A j \in Jobs : Remaining(j)' \subseteq Remaining(j),
         IsFiniteSet(rendered'),
         \A j \in Jobs : /\ IsFiniteSet(CountedOf(j)')
                         /\ Alive(j) => counters'[stats[j]] = CountsOf(j)'
  PROVE  Inv'
<1>1. \A j \in Jobs : /\ Started(j)' <=> Started(j)
                      /\ Alive(j)' <=> Alive(j)
                      /\ Complete(j) => Complete(j)'
                      /\ AllZooms(j) => AllZooms(j)'
                      /\ Over(j) => Over(j)'
  BY DEF Started, Alive, Complete, AllZooms, Over
<1>2. TaskInv'
  <2>1. \A t \in Known' : Conforms(t)'
    BY <1>1, ConformsKept DEF Inv, TaskInv, ExecInv
  <2>. QED  BY <1>1, <2>1 DEF Inv, TaskInv
<1>3. CountersInv'
  BY <1>1 DEF CountersInv, CountsOf
<1>4. OwnerInv'
  BY <1>1 DEF Inv, OwnerInv
<1>5. GateInv'
  BY <1>1, GateKept
<1>6. ListInv'
  BY <1>1 DEF Inv, ListInv, statusVars
<1>7. TypeOK'
  <2>1. JobTyped /\ StatusTyped
    BY Types DEF Inv
  <2>2. JobTyped'
    BY <2>1 DEF JobTyped
  <2>3. StatusTyped'
    BY <2>1 DEF StatusTyped, statusVars
  <2>4. ExecInv' => (StoreTyped' /\ JobTyped' /\ StatusTyped' => TypeOK')
    BY Types, PTL
  <2>. QED  BY <2>2, <2>3, <2>4, StoreKept
<1>. QED  BY <1>2, <1>3, <1>4, <1>5, <1>6, <1>7 DEF Inv

(* A worker that writes counters goes on to the next place of its task. *)
LEMMA WriterWalk ==
  ASSUME Inv, NEW w \in Workers, NEW p, Goto(w, p), UNCHANGED bagVars,
         \/ exec[w].pc = "create" /\ p = "postCalcs"
         \/ exec[w].pc = "count" /\ p = "postRenders"
         \/ exec[w].pc = "finishZoom" /\ p = "return"
         \/ exec[w].pc = "addCurrent" /\ p = "loadRemain"
  PROVE  /\ ExecInv' /\ Known' = Known /\ GateSame
         /\ exec'[w].pc = p /\ exec'[w].task = exec[w].task /\ exec'[w].i = exec[w].i
         /\ \A v \in Workers \ {w} : exec'[v] = exec[v]
         /\ SetUp' = SetUp \cup {t \in {exec[w].task} : p = "postCalcs"}
         /\ Counted' = Counted \cup {t \in {exec[w].task} : p = "postRenders"}
         /\ Returned' = Returned \cup {t \in {exec[w].task} : p = "return"}
         /\ Added' = Added \cup {t \in {exec[w].task} : p = "loadRemain"}
<1>. DEFINE here == exec[w].task
<1>1. /\ exec[w].pc # "idle" /\ ExecInv /\ here \in Tasks
      /\ p = "postCalcs" => here \in OfType("setup")
      /\ p \in {"postRenders", "return"} => here \in OfType("calc")
      /\ p = "loadRemain" => here \in OfType("render")
  BY Where, Worker DEF Inv
<1>2. p \in PcsOf[here.type] /\ p # "nextBatch" /\ p # "finishZoom"
  BY <1>1 DEF OfType, PcsOf, AfterCount, AfterAdd, InGate
<1>3. {} \in SUBSET (Tasks \ Known) /\ queued' = queued \cup {} /\ UNCHANGED <<running, done>>
  BY DEF bagVars
<1>4. PICK e : Walks(w, e, {}) /\ e.pc = p /\ e.i = exec[w].i
  BY <1>1, <1>2, <1>3, GotoWalks
<1>5. ExecInv' /\ Known' = Known \cup {}
  BY <1>1, <1>4, WalkExec
<1>6. exec'[w] = e /\ e.task = here /\ \A v \in Workers \ {w} : exec'[v] = exec[v]
  BY <1>1, <1>4 DEF ExecInv, Walks
<1>7. GateSame
  BY <1>4, <1>6 DEF GateSame
<1>8. /\ SetUp' = SetUp \cup {t \in {here} : t.type = "setup" /\ e.pc = "postCalcs"}
      /\ Counted' = Counted \cup {t \in {here} : t.type = "calc" /\ e.pc \in AfterCount}
      /\ Returned' = Returned \cup {t \in {here} : t.type = "calc" /\ e.pc = "return"}
      /\ Added' = Added \cup {t \in {here} : t.type = "render" /\ e.pc \in AfterAdd}
  <2>1. /\ exec[w].pc \in {"postCalcs"} => e.pc \in {"postCalcs"}
        /\ exec[w].pc \in AfterCount => e.pc \in AfterCount
        /\ exec[w].pc = "return" => e.pc = "return"
        /\ exec[w].pc \in AfterAdd => e.pc \in AfterAdd
    BY <1>4 DEF AfterCount, AfterAdd, InGate
  <2>. QED  BY <1>1, <1>4, <2>1, WalkSets
<1>9. SetUp' = SetUp \cup {t \in {here} : p = "postCalcs"}
  BY <1>1, <1>4, <1>8 DEF OfType
<1>10. Returned' = Returned \cup {t \in {here} : p = "return"}
  BY <1>1, <1>4, <1>8 DEF OfType
<1>11. Counted' = Counted \cup {t \in {here} : p = "postRenders"}
  <2>1. CASE p = "postRenders"
    BY <1>1, <1>4, <1>8, <2>1 DEF OfType, AfterCount
  <2>2. CASE p = "return"
    <3>1. here \in Counted
      BY <1>1, <2>2, Came DEF AfterCount
    <3>. QED  BY <1>8, <2>2, <3>1
  <2>3. CASE p \in {"postCalcs", "loadRemain"}
    BY <1>1, <1>4, <1>8, <2>3 DEF OfType, AfterCount
  <2>. QED  BY <2>1, <2>2, <2>3
<1>12. Added' = Added \cup {t \in {here} : p = "loadRemain"}
  BY <1>1, <1>4, <1>8 DEF OfType, AfterAdd, InGate
<1>. QED  BY <1>4, <1>5, <1>6, <1>7, <1>9, <1>10, <1>11, <1>12

(* Whoever writes the counters of its job finds them allocated to it. *)
LEMMA AliveWriters ==
  ASSUME Inv, NEW w \in Workers, exec[w].pc \in {"count", "finishZoom", "addCurrent"}
  PROVE  /\ Job(w) \in Jobs /\ Alive(Job(w)) /\ Ptr(w) \in Blocks
         /\ exec[w].pc = "count" => Elems(BatchOf(w)) \cap CountedOf(Job(w)) = {}
         /\ exec[w].pc = "finishZoom" => exec[w].task.zoom \in Remaining(Job(w))
         /\ exec[w].pc = "addCurrent" => exec[w].task.tile \in TilesOf(Job(w)) \ rendered
<1>. DEFINE j == Job(w)
            t == exec[w].task
<1>1. /\ ExecInv /\ exec[w].pc # "idle" /\ j \in Jobs /\ Started(j) /\ Ptr(w) \in Blocks
      /\ Active(w) /\ t.job = j
  BY Where, StartedWorker, Worker DEF Inv, Job
<1>2. CASE exec[w].pc = "count"
  <2>1. t \in OfType("calc") /\ t \notin Counted /\ BatchOf(w) = Batch(t)
    BY <1>1, <1>2, Where, Came DEF BatchOf, Batch
  <2>2. Elems(Batch(t)) \cap CountedOf(j) = {}
    BY <2>1, TileOwner DEF CountedOf, Counted
  <2>3. PICK u \in Elems(Batch(t)) : u \in TilesOf(j)
    BY <1>1, <2>1, BatchTiles
  <2>4. u \notin rendered
    BY <1>1, <2>2, <2>3, StartedJob
  <2>. QED  BY <1>1, <1>2, <2>1, <2>2, <2>3, <2>4, Counts DEF Over, Complete
<1>3. CASE exec[w].pc = "finishZoom"
  <2>1. t \in OfType("calc") /\ t \notin Returned /\ LastBatch(t)
    BY <1>1, <1>3, Where, Came DEF ExecInv
  <2>2. t = LastCalc(j, t.zoom) /\ t.zoom \in Zooms(j)
    BY <1>1, <2>1, KindsOfTask DEF LastBatch, LastCalc
  <2>3. t.zoom \in Remaining(j)
    BY <2>1, <2>2 DEF Remaining
  <2>. QED  BY <1>1, <1>3, <2>3, Counts DEF Over, AllZooms
<1>4. CASE exec[w].pc = "addCurrent"
  <2>1. t \in OfType("render") /\ t \notin Added
    BY <1>1, <1>4, Where, Came
  <2>2. t.tile \notin rendered /\ t.tile \in TilesOf(j)
    BY <1>1, <2>1, KindsOfTask DEF Inv, TaskInv
  <2>. QED  BY <1>1, <1>4, <2>2, Counts DEF Over, Complete
<1>. QED  BY <1>2, <1>3, <1>4

LEMMA CountBatchInv ==
  ASSUME Inv, NEW w \in Workers, CountBatch(w), UNCHANGED statusVars
  PROVE  Inv'
<1>. DEFINE c == exec[w].task
<1>1. /\ exec[w].pc = "count" /\ Goto(w, "postRenders")
      /\ counters' = [counters EXCEPT ![Ptr(w)].num = @ + Len(BatchOf(w))]
      /\ UNCHANGED bagVars /\ UNCHANGED storeVars /\ UNCHANGED <<owner, stats, prerenders, rendered>>
  BY DEF CountBatch, At
<1>0. PICK j \in Jobs : j = Job(w)
  BY <1>1, Where DEF Inv
<1>2. /\ ExecInv' /\ Known' = Known /\ GateSame
      /\ SetUp' = SetUp \cup {t \in {c} : "postRenders" = "postCalcs"}
      /\ Counted' = Counted \cup {t \in {c} : "postRenders" = "postRenders"}
      /\ Returned' = Returned \cup {t \in {c} : "postRenders" = "return"}
      /\ Added' = Added \cup {t \in {c} : "postRenders" = "loadRemain"}
  BY <1>1, WriterWalk
<1>3. SetUp' = SetUp /\ Counted' = Counted \cup {c} /\ Returned' = Returned /\ Added' = Added
  BY <1>2
<1>4. /\ j \in Jobs /\ Alive(j) /\ Ptr(w) \in Blocks /\ Ptr(w) = stats[j]
      /\ Elems(BatchOf(w)) \cap CountedOf(j) = {}
  BY <1>0, <1>1, AliveWriters DEF Ptr
<1>5. c \in OfType("calc") /\ c.job = j /\ BatchOf(w) = Batch(c)
  BY <1>0, <1>1, Where DEF Inv, Job, BatchOf, Batch
<1>6. /\ IsFiniteSet(Elems(Batch(c))) /\ Cardinality(Elems(Batch(c))) = Len(Batch(c))
      /\ Len(Batch(c)) \in Nat
  BY <1>5, BatchTiles
<1>7. JobTyped
  BY Types DEF Inv
<1>8. \A k \in Jobs : Remaining(k)' = Remaining(k)
  BY <1>3 DEF Remaining, LastCalc, Zooms
<1>9. CountedOf(j)' = CountedOf(j) \cup Elems(Batch(c))
  BY <1>3, <1>5 DEF CountedOf, Batch
<1>10. \A k \in Jobs \ {j} : CountedOf(k)' = CountedOf(k)
  BY <1>3, <1>5 DEF CountedOf, Batch
<1>11. /\ IsFiniteSet(CountedOf(j)')
       /\ Cardinality(CountedOf(j)') = Cardinality(CountedOf(j)) + Len(Batch(c))
  <2>1. IsFiniteSet(CountedOf(j)) /\ Elems(Batch(c)) \cap CountedOf(j) = {}
    BY <1>4, <1>5 DEF Inv, CountersInv
  <2>2. CountedOf(j) \cap Elems(Batch(c)) = {}
    BY <2>1
  <2>3. /\ IsFiniteSet(CountedOf(j) \cup Elems(Batch(c)))
        /\ Cardinality(CountedOf(j) \cup Elems(Batch(c))) =
             Cardinality(CountedOf(j)) + Cardinality(Elems(Batch(c)))
               - Cardinality(CountedOf(j) \cap Elems(Batch(c)))
    BY <1>6, <2>1, FS_Union
  <2>4. Cardinality(CountedOf(j) \cap Elems(Batch(c))) = 0
    BY <2>2, FS_EmptySet
  <2>5. Cardinality(CountedOf(j)) \in Nat
    BY <2>1, FS_CardinalityType
  <2>. QED  BY <1>6, <1>9, <2>3, <2>4, <2>5
<1>12. /\ counters[stats[j]] = CountsOf(j)
       /\ counters' \in [Blocks -> [num : Nat, cur : Nat, remain : Nat]]
       /\ counters'[stats[j]].num = Cardinality(CountedOf(j)) + Len(Batch(c))
       /\ counters'[stats[j]].cur = Cardinality(rendered \cap TilesOf(j))
       /\ counters'[stats[j]].remain = Cardinality(Remaining(j))
       /\ \A b \in Blocks \ {stats[j]} : counters'[b] = counters[b]
  <2>1. counters[stats[j]] = CountsOf(j)
    BY <1>4, Counts
  <2>. DEFINE old == counters[stats[j]]
              f == [old EXCEPT !.num = @ + Len(Batch(c))]
  <2>2. old \in [num : Nat, cur : Nat, remain : Nat]
    BY <1>4, <1>7 DEF JobTyped
  <2>3. /\ f \in [num : Nat, cur : Nat, remain : Nat] /\ f.num = old.num + Len(Batch(c))
        /\ f.cur = old.cur /\ f.remain = old.remain
    BY <1>6, <2>2
  <2>4. counters' = [counters EXCEPT ![stats[j]] = f]
    BY <1>1, <1>4, <1>5
  <2>. HIDE DEF f
  <2>. QED  BY <1>4, <1>7, <2>1, <2>3, <2>4 DEF JobTyped, CountsOf
<1>13. ASSUME NEW k \in Jobs
       PROVE  /\ IsFiniteSet(CountedOf(k)')
              /\ Alive(k) => counters'[stats[k]] = CountsOf(k)'
  <2>1. TilesOf(k)' = TilesOf(k)
    BY DEF TilesOf
  <2>2. CASE k = j
    <3>1. counters'[stats[j]] \in [num : Nat, cur : Nat, remain : Nat]
      BY <1>4, <1>12
    <3>2. counters'[stats[j]] = [num    |-> Cardinality(CountedOf(j)'),
                                 cur    |-> Cardinality(rendered \cap TilesOf(j)),
                                 remain |-> Cardinality(Remaining(j))]
      BY <1>11, <1>12, <3>1
    <3>. QED  BY <1>1, <1>8, <1>11, <2>1, <2>2, <3>2 DEF CountsOf
  <2>3. CASE k # j
    <3>1. Alive(k) => stats[k] # stats[j] /\ stats[k] \in Blocks /\ counters[stats[k]] = CountsOf(k)
      BY <1>4, <2>3, Counts
    <3>2. CountsOf(k)' = CountsOf(k)
      BY <1>1, <1>8, <1>10, <2>1, <2>3 DEF CountsOf
    <3>. QED  BY <1>10, <1>12, <2>3, <3>1, <3>2 DEF Inv, CountersInv
  <2>. QED  BY <2>2, <2>3
<1>. QED
  <2>1. \A r \in OfType("render") : r.tile \in rendered' <=> r \in Added'
    BY <1>1, <1>3 DEF Inv, TaskInv
  <2>2. IsFiniteSet(rendered') /\ rendered' \subseteq Tiles
    BY <1>1, <1>7 DEF Inv, CountersInv, JobTyped
  <2>3. ExecInv' /\ GateSame /\ Known' = Known /\ Inv
    BY <1>2
  <2>4. /\ UNCHANGED <<owner, stats, prerenders>> /\ UNCHANGED storeVars /\ rendered' = rendered
        /\ SetUp' = SetUp /\ Counted \subseteq Counted'
        /\ \A k \in Jobs : Remaining(k)' \subseteq Remaining(k)
    BY <1>1, <1>3, <1>8
  <2>. QED  BY <1>12, <1>13, <2>1, <2>2, <2>3, <2>4, CounterStep

LEMMA FinishZoomInv ==
  ASSUME Inv, NEW w \in Workers, FinishZoom(w), UNCHANGED statusVars
  PROVE  Inv'
<1>. DEFINE c == exec[w].task
<1>1. /\ exec[w].pc = "finishZoom" /\ Goto(w, "return")
      /\ counters' = [counters EXCEPT ![Ptr(w)].remain = @ - 1]
      /\ UNCHANGED bagVars /\ UNCHANGED storeVars /\ UNCHANGED <<owner, stats, prerenders, rendered>>
  BY DEF FinishZoom, At
<1>0. PICK j \in Jobs : j = Job(w)
  BY <1>1, Where DEF Inv
<1>2. /\ ExecInv' /\ Known' = Known /\ GateSame
      /\ SetUp' = SetUp \cup {t \in {c} : "return" = "postCalcs"}
      /\ Counted' = Counted \cup {t \in {c} : "return" = "postRenders"}
      /\ Returned' = Returned \cup {t \in {c} : "return" = "return"}
      /\ Added' = Added \cup {t \in {c} : "return" = "loadRemain"}
  BY <1>1, WriterWalk
<1>3. SetUp' = SetUp /\ Counted' = Counted /\ Returned' = Returned \cup {c} /\ Added' = Added
  BY <1>2
<1>4. /\ j \in Jobs /\ Alive(j) /\ Ptr(w) \in Blocks /\ Ptr(w) = stats[j]
      /\ c.zoom \in Remaining(j)
  BY <1>0, <1>1, AliveWriters DEF Ptr
<1>5. c = LastCalc(j, c.zoom)
  <2>1. c \in OfType("calc") /\ c.job = j /\ LastBatch(c)
    BY <1>0, <1>1, Where, Worker DEF Inv, Job, ExecInv
  <2>. QED  BY <2>1, KindsOfTask DEF LastBatch, LastCalc
<1>7. JobTyped
  BY Types DEF Inv
<1>8. ASSUME NEW k \in Jobs
      PROVE  Remaining(k)' = IF k = j THEN Remaining(j) \ {c.zoom} ELSE Remaining(k)
  <2>1. ASSUME NEW z PROVE LastCalc(k, z) = c <=> k = j /\ z = c.zoom
    <3>1. /\ LastCalc(k, z).job = k /\ LastCalc(k, z).zoom = z
          /\ c.job = j
      BY <1>5, TaskFields DEF LastCalc
    <3>. QED  BY <1>5, <3>1
  <2>2. \A z : LastCalc(k, z)' = LastCalc(k, z)
    BY DEF LastCalc
  <2>3. Remaining(k)' = {z \in Zooms(k) : LastCalc(k, z) \notin Returned \cup {c}}
    BY <1>3 DEF Remaining, LastCalc, Zooms
  <2>. QED  BY <2>1, <2>3 DEF Remaining
<1>9. \A k \in Jobs : CountedOf(k)' = CountedOf(k)
  BY <1>3 DEF CountedOf, Batch
<1>11. /\ Cardinality(Remaining(j)') = Cardinality(Remaining(j)) - 1
       /\ Cardinality(Remaining(j)') \in Nat
  <2>1. IsFiniteSet(Remaining(j)) /\ Cardinality(Remaining(j)) \in Nat
    BY <1>4, RemainingFinite
  <2>2. /\ IsFiniteSet(Remaining(j) \ {c.zoom})
        /\ Cardinality(Remaining(j) \ {c.zoom}) =
             IF c.zoom \in Remaining(j) THEN Cardinality(Remaining(j)) - 1
                                        ELSE Cardinality(Remaining(j))
    BY <2>1, FS_RemoveElement
  <2>. QED  BY <1>4, <1>8, <2>2, FS_CardinalityType
<1>12. /\ counters[stats[j]] = CountsOf(j)
       /\ counters' \in [Blocks -> [num : Nat, cur : Nat, remain : Nat]]
       /\ counters'[stats[j]].num = Cardinality(CountedOf(j))
       /\ counters'[stats[j]].cur = Cardinality(rendered \cap TilesOf(j))
       /\ counters'[stats[j]].remain = Cardinality(Remaining(j)')
       /\ \A b \in Blocks \ {stats[j]} : counters'[b] = counters[b]
  <2>1. counters[stats[j]] = CountsOf(j)
    BY <1>4, Counts
  <2>. DEFINE old == counters[stats[j]]
              f == [old EXCEPT !.remain = @ - 1]
  <2>2. old \in [num : Nat, cur : Nat, remain : Nat] /\ old.remain = Cardinality(Remaining(j))
    BY <1>4, <1>7, <2>1 DEF JobTyped, CountsOf
  <2>3. /\ f \in [num : Nat, cur : Nat, remain : Nat] /\ f.num = old.num
        /\ f.cur = old.cur /\ f.remain = Cardinality(Remaining(j)')
    BY <1>11, <2>2
  <2>4. counters' = [counters EXCEPT ![stats[j]] = f]
    BY <1>1, <1>4
  <2>. HIDE DEF f
  <2>. QED  BY <1>4, <1>7, <2>1, <2>3, <2>4 DEF JobTyped, CountsOf
<1>13. ASSUME NEW k \in Jobs
       PROVE  /\ IsFiniteSet(CountedOf(k)')
              /\ Alive(k) => counters'[stats[k]] = CountsOf(k)'
  <2>1. TilesOf(k)' = TilesOf(k) /\ IsFiniteSet(CountedOf(k)')
    BY <1>9 DEF TilesOf, Inv, CountersInv
  <2>2. CASE k = j
    <3>1. counters'[stats[j]] \in [num : Nat, cur : Nat, remain : Nat]
      BY <1>4, <1>12
    <3>2. counters'[stats[j]] = [num    |-> Cardinality(CountedOf(j)),
                                 cur    |-> Cardinality(rendered \cap TilesOf(j)),
                                 remain |-> Cardinality(Remaining(j)')]
      BY <1>12, <3>1
    <3>. QED  BY <1>1, <1>9, <2>1, <2>2, <3>2 DEF CountsOf
  <2>3. CASE k # j
    <3>1. Alive(k) => stats[k] # stats[j] /\ stats[k] \in Blocks /\ counters[stats[k]] = CountsOf(k)
      BY <1>4, <2>3, Counts
    <3>2. CountsOf(k)' = CountsOf(k)
      BY <1>1, <1>8, <1>9, <2>1, <2>3 DEF CountsOf
    <3>. QED  BY <1>12, <2>1, <2>3, <3>1, <3>2
  <2>. QED  BY <2>2, <2>3
<1>. QED
  <2>1. \A r \in OfType("render") : r.tile \in rendered' <=> r \in Added'
    BY <1>1, <1>3 DEF Inv, TaskInv
  <2>2. IsFiniteSet(rendered') /\ rendered' \subseteq Tiles
    BY <1>1, <1>7 DEF Inv, CountersInv, JobTyped
  <2>3. ExecInv' /\ GateSame /\ Known' = Known /\ Inv
    BY <1>2
  <2>4. /\ UNCHANGED <<owner, stats, prerenders>> /\ UNCHANGED storeVars /\ rendered' = rendered
        /\ SetUp' = SetUp /\ Counted \subseteq Counted'
        /\ \A k \in Jobs : Remaining(k)' \subseteq Remaining(k)
    BY <1>1, <1>3, <1>8
  <2>. QED  BY <1>12, <1>13, <2>1, <2>2, <2>3, <2>4, CounterStep

LEMMA AddCurrentInv ==
  ASSUME Inv, NEW w \in Workers, AddCurrent(w), UNCHANGED statusVars
  PROVE  Inv'
<1>. DEFINE r == exec[w].task
<1>1. /\ exec[w].pc = "addCurrent" /\ Goto(w, "loadRemain")
      /\ counters' = [counters EXCEPT ![Ptr(w)].cur = @ + 1]
      /\ rendered' = rendered \cup {r.tile}
      /\ UNCHANGED bagVars /\ UNCHANGED storeVars /\ UNCHANGED <<owner, stats, prerenders>>
  BY DEF AddCurrent, At
<1>0. PICK j \in Jobs : j = Job(w)
  BY <1>1, Where DEF Inv
<1>2. /\ ExecInv' /\ Known' = Known /\ GateSame
      /\ SetUp' = SetUp \cup {t \in {r} : "loadRemain" = "postCalcs"}
      /\ Counted' = Counted \cup {t \in {r} : "loadRemain" = "postRenders"}
      /\ Returned' = Returned \cup {t \in {r} : "loadRemain" = "return"}
      /\ Added' = Added \cup {t \in {r} : "loadRemain" = "loadRemain"}
  BY <1>1, WriterWalk
<1>3. SetUp' = SetUp /\ Counted' = Counted /\ Returned' = Returned /\ Added' = Added \cup {r}
  BY <1>2
<1>4. /\ j \in Jobs /\ Alive(j) /\ Ptr(w) \in Blocks /\ Ptr(w) = stats[j]
      /\ r.tile \in TilesOf(j) \ rendered /\ r.tile \in Tiles
  BY <1>0, <1>1, AliveWriters, TileBatch DEF Ptr
<1>5. r \in OfType("render") /\ r.job = j
  BY <1>0, <1>1, Where DEF Inv, Job
<1>7. JobTyped
  BY Types DEF Inv
<1>8. \A k \in Jobs : Remaining(k)' = Remaining(k)
  BY <1>3 DEF Remaining, LastCalc, Zooms
<1>9. \A k \in Jobs : CountedOf(k)' = CountedOf(k)
  BY <1>3 DEF CountedOf, Batch
<1>10. ASSUME NEW k \in Jobs
       PROVE  rendered' \cap TilesOf(k) = IF k = j THEN (rendered \cap TilesOf(j)) \cup {r.tile}
                                                  ELSE rendered \cap TilesOf(k)
  BY <1>1, <1>4, TileOwner
<1>11. /\ Cardinality(rendered' \cap TilesOf(j)) = Cardinality(rendered \cap TilesOf(j)) + 1
       /\ Cardinality(rendered \cap TilesOf(j)) \in Nat /\ IsFiniteSet(rendered')
  <2>. DEFINE S == rendered \cap TilesOf(j)
  <2>1. IsFiniteSet(rendered)
    BY DEF Inv, CountersInv
  <2>2. IsFiniteSet(S) /\ Cardinality(S) \in Nat
    BY <2>1, FS_Intersection, FS_CardinalityType
  <2>3. r.tile \notin S /\ rendered' \cap TilesOf(j) = S \cup {r.tile}
    BY <1>4, <1>10
  <2>. HIDE DEF S
  <2>4. Cardinality(S \cup {r.tile}) = Cardinality(S) + 1
    BY <2>2, <2>3, FS_AddElement
  <2>5. IsFiniteSet(rendered')
    BY <1>1, <2>1, FS_AddElement
  <2>. QED  BY <2>2, <2>3, <2>4, <2>5 DEF S
<1>12. /\ counters[stats[j]] = CountsOf(j)
       /\ counters' \in [Blocks -> [num : Nat, cur : Nat, remain : Nat]]
       /\ counters'[stats[j]].num = Cardinality(CountedOf(j))
       /\ counters'[stats[j]].cur = Cardinality(rendered' \cap TilesOf(j))
       /\ counters'[stats[j]].remain = Cardinality(Remaining(j))
       /\ \A b \in Blocks \ {stats[j]} : counters'[b] = counters[b]
  <2>1. counters[stats[j]] = CountsOf(j)
    BY <1>4, Counts
  <2>. DEFINE old == counters[stats[j]]
              f == [old EXCEPT !.cur = @ + 1]
  <2>2. /\ old \in [num : Nat, cur : Nat, remain : Nat]
        /\ old.cur = Cardinality(rendered \cap TilesOf(j))
    BY <1>4, <1>7, <2>1 DEF JobTyped, CountsOf
  <2>3. /\ f \in [num : Nat, cur : Nat, remain : Nat] /\ f.num = old.num
        /\ f.cur = Cardinality(rendered' \cap TilesOf(j)) /\ f.remain = old.remain
    BY <1>11, <2>2
  <2>4. counters' = [counters EXCEPT ![stats[j]] = f]
    BY <1>1, <1>4
  <2>. HIDE DEF f
  <2>. QED  BY <1>4, <1>7, <2>1, <2>3, <2>4 DEF JobTyped, CountsOf
<1>13. ASSUME NEW k \in Jobs
       PROVE  /\ IsFiniteSet(CountedOf(k)')
              /\ Alive(k) => counters'[stats[k]] = CountsOf(k)'
  <2>1. TilesOf(k)' = TilesOf(k) /\ IsFiniteSet(CountedOf(k)')
    BY <1>9 DEF TilesOf, Inv, CountersInv
  <2>2. CASE k = j
    <3>1. counters'[stats[j]] \in [num : Nat, cur : Nat, remain : Nat]
      BY <1>4, <1>12
    <3>2. counters'[stats[j]] = [num    |-> Cardinality(CountedOf(j)),
                                 cur    |-> Cardinality(rendered' \cap TilesOf(j)),
                                 remain |-> Cardinality(Remaining(j))]
      BY <1>12, <3>1
    <3>. QED  BY <1>8, <1>9, <2>1, <2>2, <3>2 DEF CountsOf
  <2>3. CASE k # j
    <3>1. Alive(k) => stats[k] # stats[j] /\ stats[k] \in Blocks /\ counters[stats[k]] = CountsOf(k)
      BY <1>4, <2>3, Counts
    <3>2. CountsOf(k)' = CountsOf(k)
      BY <1>8, <1>9, <1>10, <2>1, <2>3 DEF CountsOf
    <3>. QED  BY <1>12, <2>1, <2>3, <3>1, <3>2
  <2>. QED  BY <2>2, <2>3
<1>. QED
  <2>1. \A q \in OfType("render") : q.tile \in rendered' <=> q \in Added'
    <3>1. \A q \in OfType("render") : q.tile = r.tile => q = r
      BY <1>4, <1>5, KindsOfTask, TileOwner
    <3>. QED  BY <1>1, <1>3, <3>1 DEF Inv, TaskInv
  <2>2. rendered \subseteq rendered' /\ rendered' \subseteq Tiles
    BY <1>1, <1>4, <1>7 DEF JobTyped
  <2>3. ExecInv' /\ GateSame /\ Known' = Known /\ Inv
    BY <1>2
  <2>4. /\ UNCHANGED <<owner, stats, prerenders>> /\ UNCHANGED storeVars
        /\ SetUp' = SetUp /\ Counted \subseteq Counted'
        /\ \A k \in Jobs : Remaining(k)' \subseteq Remaining(k)
    BY <1>1, <1>3, <1>8
  <2>. QED  BY <1>11, <1>12, <1>13, <2>1, <2>2, <2>3, <2>4, CounterStep

-----------------------------------------------------------------------------
(* The steps that change who is listed or who owns a block. *)
LEMMA WithoutData ==
  ASSUME NEW list \in Seq(Blocks), NEW b,
         \A m, n \in DOMAIN list : list[m] = list[n] => m = n
  PROVE  /\ Without(list, b) \in Seq(Blocks)
         /\ Elems(Without(list, b)) = Elems(list) \ {b}
         /\ LET new == Without(list, b) IN
              \A m, n \in DOMAIN new : new[m] = new[n] => m = n
<1>1. CASE b \notin Elems(list)
  BY <1>1 DEF Without
<1>2. CASE b \in Elems(list)
  <2>. DEFINE last == Len(list)
              i == CHOOSE k \in DOMAIN list :
                     list[k] = b /\ \A m \in DOMAIN list : list[m] = b => k <= m
              full == [list EXCEPT ![i] = list[last]]
              new == SubSeq(full, 1, last - 1)
  <2>1. last \in Nat /\ DOMAIN list = 1..last
    OBVIOUS
  <2>2. PICK k \in DOMAIN list : list[k] = b
    BY <1>2 DEF Elems
  <2>3. k <= k /\ \A m \in DOMAIN list : list[m] = b => m = k
    BY <2>1, <2>2
  <2>4. i \in DOMAIN list /\ list[i] = b
    BY <2>1, <2>2, <2>3
  <2>5. Without(list, b) = new
    BY <1>2 DEF Without
  <2>. HIDE DEF i
  <2>6. /\ full \in Seq(Blocks) /\ Len(full) = last
        /\ \A m \in 1..last : full[m] = IF m = i THEN list[last] ELSE list[m]
    BY <2>1, <2>4
  <2>. HIDE DEF full
  <2>7. /\ new \in Seq(Blocks) /\ Len(new) = last - 1 /\ DOMAIN new = 1..last - 1
        /\ \A m \in 1..last - 1 : new[m] = full[m]
    BY <2>1, <2>4, <2>6
  <2>. HIDE DEF new, last
  <2>8. \A m \in 1..last - 1 :
          /\ m \in DOMAIN list /\ last \in DOMAIN list
          /\ new[m] = IF m = i THEN list[last] ELSE list[m]
    BY <2>1, <2>4, <2>6, <2>7
  <2>9. \A m, n \in DOMAIN new : new[m] = new[n] => m = n
    <3>. SUFFICES ASSUME NEW m \in 1..last - 1, NEW n \in 1..last - 1, new[m] = new[n]
                  PROVE  m = n
      BY <2>7
    <3>1. m # last /\ n # last
      BY <2>1
    <3>. QED  BY <2>8, <3>1
  <2>10. \A m \in DOMAIN new : new[m] \in Elems(list) /\ new[m] # b
    <3>. SUFFICES ASSUME NEW m \in 1..last - 1
                  PROVE  new[m] \in Elems(list) /\ new[m] # b
      BY <2>7
    <3>1. m # last
      BY <2>1
    <3>2. CASE m = i
      BY <2>4, <2>8, <3>1, <3>2 DEF Elems
    <3>3. CASE m # i
      BY <2>4, <2>8, <3>3 DEF Elems
    <3>. QED  BY <3>2, <3>3
  <2>11. ASSUME NEW c \in Elems(list), c # b PROVE c \in Elems(new)
    <3>1. PICK m \in 1..last : list[m] = c
      BY <2>1 DEF Elems
    <3>2. m # i
      BY <2>4, <2>11, <3>1
    <3>3. CASE m # last
      <4>1. m \in 1..last - 1
        BY <2>1, <3>3
      <4>. QED  BY <2>7, <2>8, <3>1, <3>2, <4>1 DEF Elems
    <3>4. CASE m = last
      <4>1. i \in 1..last - 1
        BY <2>1, <2>4, <3>2, <3>4
      <4>. QED  BY <2>7, <2>8, <3>1, <3>4, <4>1 DEF Elems
    <3>. QED  BY <3>3, <3>4
  <2>12. Elems(new) = Elems(list) \ {b}
    BY <2>10, <2>11 DEF Elems
  <2>. QED  BY <2>5, <2>7, <2>9, <2>12
<1>. QED  BY <1>1, <1>2

LEMMA AppendData ==
  ASSUME NEW list \in Seq(Blocks), NEW b \in Blocks, b \notin Elems(list),
         \A m, n \in DOMAIN list : list[m] = list[n] => m = n
  PROVE  LET new == Append(list, b) IN
         /\ new \in Seq(Blocks) /\ Elems(new) = Elems(list) \cup {b}
         /\ \A m, n \in DOMAIN new : new[m] = new[n] => m = n
<1>. DEFINE new == Append(list, b)
            last == Len(list)
<1>1. /\ new \in Seq(Blocks) /\ last \in Nat /\ DOMAIN list = 1..last
      /\ DOMAIN new = 1..last + 1 /\ new[last + 1] = b
      /\ \A m \in 1..last : new[m] = list[m]
  OBVIOUS
<1>. HIDE DEF new
<1>2. \A m \in 1..last + 1 : m \in 1..last \/ m = last + 1
  BY <1>1
<1>3. \A m \in 1..last : m \in 1..last + 1 /\ list[m] # b
  BY <1>1 DEF Elems
<1>4. last + 1 \in 1..last + 1
  BY <1>1
<1>5. Elems(new) = Elems(list) \cup {b}
  BY <1>1, <1>2, <1>3, <1>4 DEF Elems
<1>6. \A m, n \in DOMAIN new : new[m] = new[n] => m = n
  BY <1>1, <1>2, <1>3
<1>. QED  BY <1>1, <1>5, <1>6 DEF new

(* The list without the job, which is over. *)
LEMMA RemovePrerenderInv ==
  ASSUME Inv, OwnBlock, NEW w \in Workers, RemovePrerender(w), UNCHANGED statusVars
  PROVE  Inv'
<1>1. /\ exec[w].pc = "remove" /\ reading = 0 /\ Goto(w, "destroy")
      /\ prerenders' = Without(prerenders, Ptr(w))
      /\ UNCHANGED bagVars /\ UNCHANGED storeVars /\ UNCHANGED <<owner, stats, counters, rendered>>
  BY DEF RemovePrerender, At, ListUnlocked
<1>2. Passes(exec[w].pc, "destroy") /\ exec[w].pc \in InGate
  BY <1>1 DEF Passes, InGate
<1>3. PICK e : Walks(w, e, {}) /\ e.pc = "destroy"
  BY <1>1, <1>2, RenderGoto
<1>4. /\ ExecInv' /\ Known' = Known \cup {}
      /\ exec'[w] = e /\ e.task = exec[w].task
      /\ \A v \in Workers \ {w} : exec'[v] = exec[v]
      /\ SetUp' = SetUp /\ Counted' = Counted /\ Added' = Added
      /\ \A j \in Jobs : Remaining(j)' = Remaining(j)
  BY <1>2, <1>3, PassSets
<1>5. SameJobs
  BY <1>1, <1>4 DEF SameJobs
<1>6. /\ TaskInv' /\ CountersInv' /\ OwnerInv'
      /\ \A j \in Jobs : /\ Started(j)' <=> Started(j)
                         /\ AllZooms(j)' <=> AllZooms(j)
                         /\ Over(j)' <=> Over(j)
  BY <1>4, <1>5, SameJobsInv
<1>7. JobTyped /\ StatusTyped
  BY Types DEF Inv
<1>8. PICK list \in Seq(Blocks) : list = prerenders
  BY <1>7 DEF JobTyped
<1>9. /\ prerenders' \in Seq(Blocks) /\ Elems(prerenders') = Elems(prerenders) \ {Ptr(w)}
      /\ \A m, n \in DOMAIN prerenders' : prerenders'[m] = prerenders'[n] => m = n
  <2>1. \A m, n \in DOMAIN list : list[m] = list[n] => m = n
    BY <1>8 DEF Inv, ListInv
  <2>. QED  BY <1>1, <1>8, <2>1, WithoutData
<1>10. Job(w) \in Jobs /\ Ptr(w) \in Blocks /\ Over(Job(w))
  <2>1. Job(w) \in Jobs /\ Ptr(w) \in Blocks
    BY <1>2, GateOwner
  <2>. QED  BY <1>1, <2>1 DEF Inv, GateInv
<1>11. GateInv'
  <2>1. ASSUME NEW v \in Workers
        PROVE  /\ Job(v)' = Job(v)
               /\ Ptr(v)' = Ptr(v)
               /\ At(v, "loadCounts")' => AllZooms(Job(v))
               /\ exec'[v].pc \in {"remove", "destroy"} => Over(Job(v))
               /\ At(v, "destroy")' => Ptr(v) \notin Elems(prerenders')
               /\ exec'[v].pc \in {"loadCounts", "remove", "destroy"} => Job(v) \in Jobs
    <3>1. Job(v)' = Job(v)
      BY <1>4 DEF Job
    <3>2. Ptr(v)' = Ptr(v)
      BY <1>1, <3>1 DEF Ptr
    <3>3. CASE v = w
      BY <1>3, <1>4, <1>9, <1>10, <3>1, <3>2, <3>3 DEF At
    <3>4. CASE v # w
      <4>1. exec'[v] = exec[v]
        BY <1>4, <3>4
      <4>. QED  BY <1>9, <3>1, <3>2, <4>1, Where DEF At, Inv, GateInv
    <3>. QED  BY <3>3, <3>4
  <2>. QED  BY <1>6, <2>1 DEF GateInv, At, Job, Ptr
<1>12. ListInv'
  <2>1. \A b \in Elems(prerenders') : owner'[b] # "free"
    BY <1>1, <1>9 DEF Inv, ListInv
  <2>2. \A k \in Jobs : Started(k)' /\ ~Over(k)' => stats'[k] \in Elems(prerenders')
    <3>. SUFFICES ASSUME NEW k \in Jobs, Started(k), ~Over(k)
                  PROVE  stats[k] \in Elems(prerenders')
      BY <1>1, <1>6
    <3>1. stats[k] \in Elems(prerenders) /\ owner[stats[k]] = k
      BY DEF Inv, ListInv, OwnerInv
    <3>2. stats[k] # Ptr(w)
      BY <1>1, <1>10, <3>1, PrerenderAssumption DEF OwnBlock
    <3>. QED  BY <1>9, <3>1, <3>2
  <2>3. job_stats' = "none"
    BY <1>1 DEF statusVars, Inv, ListInv
  <2>. QED  BY <1>9, <2>1, <2>2, <2>3 DEF ListInv, Elems
<1>13. TypeOK'
  <2>1. JobTyped'
    BY <1>1, <1>7, <1>9 DEF JobTyped
  <2>2. StatusTyped'
    <3>1. Len(prerenders') \in Nat /\ reading' = 0
      BY <1>1, <1>9 DEF statusVars
    <3>. QED  BY <1>7, <3>1 DEF StatusTyped, statusVars
  <2>3. ExecInv' => (StoreTyped' /\ JobTyped' /\ StatusTyped' => TypeOK')
    BY Types, PTL
  <2>. QED  BY <1>1, <1>4, <2>1, <2>2, <2>3, StoreKept
<1>. QED  BY <1>4, <1>6, <1>11, <1>12, <1>13 DEF Inv

(* The counters of a job that is over and not listed are freed. *)
LEMMA DestroyStatsInv ==
  ASSUME Inv, OwnBlock, NEW w \in Workers, DestroyStats(w), UNCHANGED statusVars
  PROVE  Inv'
<1>1. /\ exec[w].pc = "destroy" /\ Goto(w, "commit")
      /\ owner' = [owner EXCEPT ![Ptr(w)] = "free"]
      /\ UNCHANGED bagVars /\ UNCHANGED storeVars
      /\ UNCHANGED <<stats, counters, prerenders, rendered>>
  BY DEF DestroyStats, At
<1>2. Passes(exec[w].pc, "commit") /\ exec[w].pc \in InGate
  BY <1>1 DEF Passes, InGate
<1>3. PICK e : Walks(w, e, {}) /\ e.pc = "commit"
  BY <1>1, <1>2, RenderGoto
<1>4. /\ ExecInv' /\ Known' = Known \cup {}
      /\ exec'[w] = e /\ e.task = exec[w].task
      /\ \A v \in Workers \ {w} : exec'[v] = exec[v]
      /\ SetUp' = SetUp /\ Counted' = Counted /\ Added' = Added
      /\ \A j \in Jobs : Remaining(j)' = Remaining(j)
  BY <1>2, <1>3, PassSets
<1>5. JobTyped /\ StatusTyped
  BY Types DEF Inv
<1>6. /\ Job(w) \in Jobs /\ Ptr(w) \in Blocks /\ Over(Job(w))
      /\ Ptr(w) \notin Elems(prerenders) /\ owner[Ptr(w)] \in {Job(w), "free"}
  <2>1. Job(w) \in Jobs /\ Ptr(w) \in Blocks
    BY <1>2, GateOwner
  <2>. QED  BY <1>1, <2>1 DEF Inv, GateInv, At, OwnBlock
<1>7. /\ "free" \notin Jobs /\ owner'[Ptr(w)] = "free"
      /\ \A b \in Blocks \ {Ptr(w)} : owner'[b] = owner[b]
  BY <1>1, <1>5, <1>6, PrerenderAssumption DEF JobTyped
<1>8. \A k \in Jobs : /\ Started(k)' <=> Started(k)
                      /\ CountedOf(k)' = CountedOf(k)
                      /\ Complete(k)' <=> Complete(k)
                      /\ Alive(k)' => Alive(k)
  <2>1. \A k \in Jobs : /\ Started(k)' <=> Started(k)
                        /\ CountedOf(k)' = CountedOf(k)
                        /\ Complete(k)' <=> Complete(k)
    BY <1>1, <1>4 DEF Started, CountedOf, Batch, Complete, TilesOf
  <2>2. \A k \in Jobs : Started(k) => stats[k] \in Blocks
    BY <1>5 DEF JobTyped, Started
  <2>3. ASSUME NEW k \in Jobs, Alive(k)' PROVE Alive(k)
    <3>1. Started(k) /\ owner'[stats[k]] = k /\ stats[k] \in Blocks
      BY <1>1, <2>1, <2>2, <2>3 DEF Alive
    <3>2. stats[k] # Ptr(w)
      BY <1>7, <3>1
    <3>. QED  BY <1>7, <3>1, <3>2 DEF Alive
  <2>. QED  BY <2>1, <2>3
<1>9. \A k \in Jobs : /\ AllZooms(k)' <=> AllZooms(k)
                      /\ Over(k)' <=> Over(k)
  BY <1>4, <1>8 DEF AllZooms, Over
<1>10. TaskInv'
  <2>1. \A t \in Known : Conforms(t)'
    BY <1>4, <1>8, ConformsKept DEF Inv, TaskInv, ExecInv
  <2>. QED  BY <1>1, <1>4, <1>8, <2>1 DEF Inv, TaskInv
<1>11. CountersInv'
  <2>1. \A k \in Jobs : Alive(k)' =>
          counters'[stats[k]] = [num    |-> Cardinality(CountedOf(k)'),
                                 cur    |-> Cardinality(rendered \cap TilesOf(k)),
                                 remain |-> Cardinality(Remaining(k)')]
    BY <1>1, <1>4, <1>8 DEF Inv, CountersInv
  <2>2. \A k : TilesOf(k)' = TilesOf(k)
    BY DEF TilesOf
  <2>. QED  BY <1>1, <1>8, <2>1, <2>2 DEF Inv, CountersInv
<1>12. OwnerInv'
  <2>1. ASSUME NEW k \in Jobs, Started(k) PROVE owner'[stats[k]] = k \/ Over(k)
    <3>1. stats[k] \in Blocks /\ (owner[stats[k]] = k \/ Over(k))
      BY <1>5, <2>1 DEF JobTyped, Started, Inv, OwnerInv
    <3>. QED  BY <1>6, <1>7, <3>1
  <2>2. \A b \in Blocks : owner'[b] # "free" => stats[owner'[b]] = b
    BY <1>7 DEF Inv, OwnerInv
  <2>. QED  BY <1>1, <1>8, <1>9, <2>1, <2>2 DEF OwnerInv
<1>13. GateInv'
  <2>1. GateSame
    BY <1>3, <1>4 DEF GateSame
  <2>2. \A j \in Jobs : /\ AllZooms(j) => AllZooms(j)'
                        /\ Complete(j) => Complete(j)'
    BY <1>8, <1>9
  <2>. QED  BY <1>1, <1>4, <2>1, <2>2, GateKept
<1>14. ListInv'
  <2>1. \A b \in Elems(prerenders) : b \in Blocks /\ b # Ptr(w) /\ owner[b] # "free"
    BY <1>5, <1>6 DEF Inv, ListInv, JobTyped, Elems
  <2>2. \A b \in Elems(prerenders) : owner'[b] # "free"
    BY <1>7, <2>1
  <2>. QED  BY <1>1, <1>8, <1>9, <2>2 DEF Inv, ListInv, statusVars
<1>15. TypeOK'
  <2>1. JobTyped'
    BY <1>1, <1>5 DEF JobTyped
  <2>2. StatusTyped'
    BY <1>1, <1>5 DEF StatusTyped, statusVars
  <2>3. ExecInv' => (StoreTyped' /\ JobTyped' /\ StatusTyped' => TypeOK')
    BY Types, PTL
  <2>. QED  BY <1>1, <1>4, <2>1, <2>2, <2>3, StoreKept
<1>. QED  BY <1>4, <1>10, <1>11, <1>12, <1>13, <1>14, <1>15 DEF Inv

(* The setup lists counters that nothing has been counted in yet. *)
LEMMA CreateStatsInv ==
  ASSUME Inv, FreshBlocks' \/ OneWorker, NEW w \in Workers, CreateStats(w),
         UNCHANGED statusVars
  PROVE  Inv'
<1>0. PICK j \in Jobs : j = Job(w)
  BY Where DEF CreateStats, At, Inv
<1>1. /\ exec[w].pc = "create" /\ reading = 0 /\ Goto(w, "postCalcs")
      /\ UNCHANGED bagVars /\ UNCHANGED storeVars /\ UNCHANGED rendered
  BY DEF CreateStats, At, ListUnlocked
<1>2. PICK b \in Blocks :
        /\ owner[b] = "free"
        /\ owner' = [owner EXCEPT ![b] = j]
        /\ stats' = [stats EXCEPT ![j] = b]
        /\ counters' = [counters EXCEPT ![b] = [Zero EXCEPT !.remain = Len(Batches[j])]]
        /\ prerenders' = Append(prerenders, b)
  BY <1>0 DEF CreateStats
<1>3. /\ ExecInv' /\ Known' = Known /\ GateSame
      /\ SetUp' = SetUp \cup {t \in {exec[w].task} : "postCalcs" = "postCalcs"}
      /\ Counted' = Counted \cup {t \in {exec[w].task} : "postCalcs" = "postRenders"}
      /\ Returned' = Returned \cup {t \in {exec[w].task} : "postCalcs" = "return"}
      /\ Added' = Added \cup {t \in {exec[w].task} : "postCalcs" = "loadRemain"}
      /\ exec'[w].pc = "postCalcs" /\ \A v \in Workers \ {w} : exec'[v] = exec[v]
  BY <1>1, WriterWalk
<1>4. exec[w].task = SetupTask(j) /\ ~Started(j)
  BY <1>0, <1>1, Where, KindsOfTask, StartedWorker DEF Inv, Job
<1>5. /\ SetUp' = SetUp \cup {SetupTask(j)}
      /\ Counted' = Counted /\ Returned' = Returned /\ Added' = Added
  BY <1>3, <1>4
<1>6. JobTyped /\ StatusTyped
  BY Types DEF Inv
<1>7. /\ "free" \notin Jobs /\ "none" \notin Blocks /\ stats[j] = "none"
      /\ owner'[b] = j /\ \A c \in Blocks \ {b} : owner'[c] = owner[c]
      /\ stats'[j] = b /\ \A k \in Jobs \ {j} : stats'[k] = stats[k]
      /\ \A k \in Jobs : Started(k) => stats[k] \in Blocks /\ k # j
  BY <1>2, <1>4, <1>6, PrerenderAssumption DEF JobTyped, Started
<1>8. /\ counters' \in [Blocks -> [num : Nat, cur : Nat, remain : Nat]]
      /\ counters'[b] = [num |-> 0, cur |-> 0, remain |-> Len(Batches[j])]
      /\ \A c \in Blocks \ {b} : counters'[c] = counters[c]
  <2>. DEFINE f == [Zero EXCEPT !.remain = Len(Batches[j])]
  <2>1. f = [num |-> 0, cur |-> 0, remain |-> Len(Batches[j])]
    BY DEF Zero
  <2>2. f \in [num : Nat, cur : Nat, remain : Nat]
    BY <2>1, JobData
  <2>3. counters' = [counters EXCEPT ![b] = f]
    BY <1>2
  <2>. HIDE DEF f
  <2>. QED  BY <1>6, <2>1, <2>2, <2>3 DEF JobTyped
<1>9. \A k \in Jobs : /\ Started(k)' <=> Started(k) \/ k = j
                      /\ CountedOf(k)' = CountedOf(k)
                      /\ Remaining(k)' = Remaining(k)
                      /\ TilesOf(k)' = TilesOf(k)
                      /\ Complete(k)' <=> Complete(k)
                      /\ AllZooms(k)' <=> AllZooms(k)
                      /\ Over(k)' <=> Over(k)
  <2>1. \A k \in Jobs : Started(k)' <=> Started(k) \/ k = j
    BY <1>7 DEF Started
  <2>2. \A k \in Jobs : CountedOf(k)' = CountedOf(k)
    BY <1>5 DEF CountedOf, Batch
  <2>3. \A k \in Jobs : Remaining(k)' = Remaining(k)
    BY <1>5 DEF Remaining, LastCalc, Zooms
  <2>4. \A k \in Jobs : TilesOf(k)' = TilesOf(k) /\ (Complete(k)' <=> Complete(k))
    BY <1>1 DEF TilesOf, Complete
  <2>. QED  BY <2>1, <2>2, <2>3, <2>4 DEF AllZooms, Over
<1>10. \A k \in Jobs \ {j} : Alive(k)' => Alive(k) /\ stats[k] # b
  BY <1>7, <1>9 DEF Alive
(* Nothing of the job has been counted or finished. *)
<1>11. CountsOf(j) = [num |-> 0, cur |-> 0, remain |-> Len(Batches[j])]
  <2>1. CountedOf(j) = {} /\ rendered \cap TilesOf(j) = {}
    BY <1>4, StartedJob
  <2>2. Remaining(j) = 1..Len(Batches[j])
    <3>1. \A c \in Returned : Started(c.job)
      <4>1. Returned \subseteq Counted
        BY <1>1, Came DEF Inv
      <4>. QED  BY <4>1, StartedJob
    <3>2. \A z : LastCalc(j, z).job = j
      BY TaskFields DEF LastCalc
    <3>. QED  BY <1>4, <3>1, <3>2, JobData DEF Remaining
  <2>3. Cardinality(1..Len(Batches[j])) = Len(Batches[j])
    <3>1. Len(Batches[j]) \in Nat
      BY JobData
    <3>2. Cardinality(1..Len(Batches[j])) =
            IF 1 > Len(Batches[j]) THEN 0 ELSE Len(Batches[j]) - 1 + 1
      BY SMTT(30), <3>1, FS_Interval
    <3>. QED  BY <3>1, <3>2
  <2>. QED  BY <2>1, <2>2, <2>3, FS_EmptySet DEF CountsOf
<1>12. TaskInv'
  <2>1. \A t \in Known' : Conforms(t)'
    BY <1>3, <1>5, <1>9, ConformsKept DEF Inv, TaskInv, ExecInv
  <2>2. \A k \in Jobs : Started(k)' <=> SetupTask(k) \in SetUp'
    <3>1. \A k : SetupTask(k) = SetupTask(j) => k = j
      BY TaskFields
    <3>. QED  BY <1>5, <1>9, <3>1 DEF Inv, TaskInv
  <2>. QED  BY <1>1, <1>5, <2>1, <2>2 DEF Inv, TaskInv
<1>13. CountersInv'
  <2>. SUFFICES ASSUME NEW k \in Jobs, Alive(k)'
                PROVE  counters'[stats'[k]] = CountsOf(k)'
    BY <1>1, <1>9 DEF Inv, CountersInv, CountsOf
  <2>1. CountsOf(k)' = CountsOf(k)
    BY <1>1, <1>9 DEF CountsOf
  <2>2. CASE k = j
    BY <1>7, <1>8, <1>11, <2>1, <2>2
  <2>3. CASE k # j
    BY <1>7, <1>8, <1>10, <2>1, <2>3, Counts
  <2>. QED  BY <2>2, <2>3
<1>14. OwnerInv'
  <2>1. ASSUME NEW k \in Jobs, Started(k)' PROVE owner'[stats'[k]] = k \/ Over(k)
    <3>1. CASE k = j
      BY <1>7, <3>1
    <3>2. CASE k # j
      <4>1. Started(k) /\ stats[k] \in Blocks
        BY <1>7, <1>9, <2>1, <3>2
      <4>2. owner[stats[k]] = k \/ Over(k)
        BY <4>1 DEF Inv, OwnerInv
      <4>. QED  BY <1>2, <1>7, <3>2, <4>1, <4>2
    <3>. QED  BY <3>1, <3>2
  <2>2. ASSUME NEW c \in Blocks, owner'[c] # "free" PROVE stats'[owner'[c]] = c
    <3>1. CASE c = b
      BY <1>7, <3>1
    <3>2. CASE c # b
      <4>1. owner'[c] = owner[c] /\ owner[c] \in Jobs /\ stats[owner[c]] = c
        BY <1>6, <1>7, <2>2, <3>2 DEF Inv, OwnerInv, JobTyped
      <4>2. owner[c] # j
        BY <1>7, <4>1
      <4>. QED  BY <1>7, <4>1, <4>2
    <3>. QED  BY <3>1, <3>2
  <2>. QED  BY <1>9, <2>1, <2>2 DEF OwnerInv
<1>15. /\ prerenders' \in Seq(Blocks) /\ Elems(prerenders') = Elems(prerenders) \cup {b}
       /\ \A m, n \in DOMAIN prerenders' : prerenders'[m] = prerenders'[n] => m = n
  <2>1. PICK list \in Seq(Blocks) : list = prerenders
    BY <1>6 DEF JobTyped
  <2>2. b \notin Elems(list) /\ \A m, n \in DOMAIN list : list[m] = list[n] => m = n
    BY <1>2, <2>1 DEF Inv, ListInv
  <2>. QED  BY <1>2, <2>1, <2>2, AppendData
<1>16. GateInv'
  <2>1. ASSUME NEW v \in Workers, exec'[v].pc \in {"loadCounts", "remove", "destroy"}
        PROVE  /\ Job(v)' = Job(v) /\ Job(v) \in Jobs \ {j}
               /\ Ptr(v)' = Ptr(v)
               /\ At(v, "loadCounts")' => AllZooms(Job(v))
               /\ exec'[v].pc \in {"remove", "destroy"} => Over(Job(v))
               /\ At(v, "destroy")' => Ptr(v) \notin Elems(prerenders')
    <3>1. v # w /\ exec'[v] = exec[v]
      BY <1>3, <2>1
    <3>2. Job(v)' = Job(v) /\ exec[v].pc \in {"loadCounts", "remove", "destroy"}
      BY <2>1, <3>1 DEF Job
    <3>3. Job(v) \in Jobs \ {j}
      BY <1>4, <3>2, Where, StartedWorker DEF Inv
    <3>4. Ptr(v)' = Ptr(v)
      BY <1>7, <3>2, <3>3 DEF Ptr
    <3>5. At(v, "destroy")' => Ptr(v) # b
      <4>. SUFFICES ASSUME At(v, "destroy")', Ptr(v) = b PROVE FALSE
        OBVIOUS
      <4>1. FreshBlocks'
        BY <3>1 DEF OneWorker
      <4>2. stats[Job(v)] = b /\ stats'[Job(v)] = stats'[j] /\ Started(j)'
        BY <1>7, <1>9, <3>3 DEF Ptr
      <4>. QED  BY <3>3, <4>1, <4>2 DEF FreshBlocks
    <3>6. /\ At(v, "loadCounts")' => AllZooms(Job(v))
          /\ exec'[v].pc \in {"remove", "destroy"} => Over(Job(v))
          /\ At(v, "destroy")' => Ptr(v) \notin Elems(prerenders)
      BY <3>1 DEF At, Inv, GateInv
    <3>. QED  BY <1>15, <3>2, <3>3, <3>4, <3>5, <3>6
  <2>. QED  BY <1>9, <2>1 DEF GateInv, At, Job, Ptr
<1>17. ListInv'
  <2>1. \A c \in Elems(prerenders') : owner'[c] # "free"
    <3>1. \A c \in Elems(prerenders) : c \in Blocks /\ owner[c] # "free"
      BY <1>6 DEF Inv, ListInv, JobTyped, Elems
    <3>. QED  BY <1>7, <1>15, <3>1
  <2>2. \A k \in Jobs : Started(k)' /\ ~Over(k)' => stats'[k] \in Elems(prerenders')
    BY <1>7, <1>9, <1>15 DEF Inv, ListInv
  <2>3. job_stats' = "none"
    BY <1>1 DEF statusVars, Inv, ListInv
  <2>. QED  BY <1>15, <2>1, <2>2, <2>3 DEF ListInv, Elems
<1>18. TypeOK'
  <2>1. JobTyped'
    BY <1>1, <1>2, <1>6, <1>8, <1>15 DEF JobTyped
  <2>2. StatusTyped'
    <3>1. Len(prerenders') \in Nat /\ reading' = 0
      BY <1>1, <1>15 DEF statusVars
    <3>. QED  BY <1>6, <3>1 DEF StatusTyped, statusVars
  <2>3. ExecInv' => (StoreTyped' /\ JobTyped' /\ StatusTyped' => TypeOK')
    BY Types, PTL
  <2>. QED  BY <1>1, <1>3, <2>1, <2>2, <2>3, StoreKept
<1>. QED  BY <1>3, <1>12, <1>13, <1>14, <1>16, <1>17, <1>18 DEF Inv

-----------------------------------------------------------------------------
LEMMA InitInv == Init => Inv
<1>. SUFFICES ASSUME Init PROVE Inv
  OBVIOUS
<1>1. /\ queued = {} /\ running = {} /\ done = {} /\ exec = [w \in Workers |-> Idle]
      /\ pending = {} /\ writing = {} /\ stored = {} /\ force = FALSE
      /\ owner = [b \in Blocks |-> "free"] /\ stats = [j \in Jobs |-> "none"]
      /\ counters = [b \in Blocks |-> Zero] /\ prerenders = <<>> /\ rendered = {}
      /\ reading = 0 /\ job_stats = "none" /\ statuses = 0
  BY DEF Init, Bag!Init, Store!Init
<1>2. ExecInv
  BY <1>1 DEF ExecInv, Active, Known
<1>3. TypeOK
  <2>1. StoreTyped
    BY <1>1 DEF StoreTyped
  <2>2. JobTyped
    BY <1>1 DEF JobTyped, Zero
  <2>3. StatusTyped
    BY <1>1, PrerenderAssumption DEF StatusTyped
  <2>. QED  BY <1>2, <2>1, <2>2, <2>3, Types
<1>4. \A w \in Workers : exec[w].pc = "idle"
  BY <1>1 DEF Idle
<1>5. SetUp = {} /\ Counted = {} /\ Added = {} /\ \A j \in Jobs : ~Started(j)
  BY <1>1, <1>4 DEF SetUp, Counted, Added, Reached, Started, AfterCount, AfterAdd, InGate
<1>6. \A j \in Jobs : CountedOf(j) = {}
  BY <1>5 DEF CountedOf
<1>7. TaskInv
  BY <1>1, <1>5 DEF TaskInv, Known
<1>8. CountersInv
  BY <1>1, <1>5, <1>6, FS_EmptySet DEF CountersInv, Alive
<1>9. OwnerInv /\ GateInv
  BY <1>1, <1>4, <1>5 DEF OwnerInv, GateInv, At
<1>10. ListInv
  BY <1>1, <1>5 DEF ListInv, Elems
<1>. QED  BY <1>2, <1>3, <1>7, <1>8, <1>9, <1>10 DEF Inv

LEMMA NextInv ==
  ASSUME Inv, OwnBlock, FreshBlocks' \/ OneWorker, [Next]_vars
  PROVE  Inv'
<1>1. ASSUME NEW j \in Jobs, StartPrerender(j), UNCHANGED statusVars PROVE Inv'
  BY <1>1, StartPrerenderInv
<1>2. ASSUME NEW w \in Workers, WorkerStep(w), UNCHANGED statusVars PROVE Inv'
  <2>1. CASE \E t \in queued : Take(w, t)
    BY <1>2, <2>1, TakeInv
  <2>2. CASE CreateStats(w)
    BY <1>2, <2>2, CreateStatsInv
  <2>3. CASE PostCalc(w)
    BY <1>2, <2>3, PostCalcInv
  <2>4. CASE CountBatch(w)
    BY <1>2, <2>4, CountBatchInv
  <2>5. CASE PostRender(w)
    BY <1>2, <2>5, PostRenderInv
  <2>6. CASE PostNextBatch(w)
    BY <1>2, <2>6, PostNextBatchInv
  <2>7. CASE FinishZoom(w)
    BY <1>2, <2>7, FinishZoomInv
  <2>8. CASE CheckExists(w)
    BY <1>2, <2>8, CheckExistsInv
  <2>9. CASE Render(w)
    BY <1>2, <2>9, RenderInv
  <2>10. CASE AddCurrent(w)
    BY <1>2, <2>10, AddCurrentInv
  <2>11. CASE LoadRemain(w)
    BY <1>2, <2>11, LoadRemainInv
  <2>12. CASE LoadCounts(w)
    BY <1>2, <2>12, LoadCountsInv
  <2>13. CASE RemovePrerender(w)
    BY <1>2, <2>13, RemovePrerenderInv
  <2>14. CASE DestroyStats(w)
    BY <1>2, <2>14, DestroyStatsInv
  <2>15. CASE Commit(w)
    BY <1>2, <2>15, CommitInv
  <2>16. CASE TaskReturns(w)
    BY <1>2, <2>16, ReturnInv DEF TaskReturns, At
  <2>. QED  BY <1>2, <2>1, <2>2, <2>3, <2>4, <2>5, <2>6, <2>7, <2>8, <2>9, <2>10, <2>11,
               <2>12, <2>13, <2>14, <2>15, <2>16 DEF WorkerStep
<1>3. ASSUME WriteBatch, UNCHANGED statusVars PROVE Inv'
  BY <1>3, WriteBatchInv
<1>. QED  BY <1>1, <1>2, <1>3, GetStatusInv, StutterInv DEF Next

(* While no block is allocated twice, nobody finds another job's. *)
LEMMA FreshOwnBlock ==
  ASSUME Inv, FreshBlocks
  PROVE  OwnBlock
<1>. SUFFICES ASSUME NEW w \in Workers, exec[w].pc \in {"remove", "destroy"},
                     owner[Ptr(w)] # "free"
              PROVE  owner[Ptr(w)] = Job(w)
  BY DEF OwnBlock
<1>1. Job(w) \in Jobs /\ Started(Job(w)) /\ Ptr(w) \in Blocks
  BY Where, StartedWorker DEF Inv
<1>2. owner[Ptr(w)] \in Jobs /\ stats[owner[Ptr(w)]] = Ptr(w)
  BY <1>1, Types DEF Inv, OwnerInv, JobTyped
<1>. QED  BY <1>1, <1>2 DEF FreshBlocks, Ptr

LEMMA FreshInv == Spec /\ []FreshBlocks => []Inv
<1>1. Inv /\ FreshBlocks /\ FreshBlocks' /\ [Next]_vars => Inv'
  BY FreshOwnBlock, NextInv
<1>. QED  BY <1>1, InitInv, PTL DEF Spec

(* The types of Prerender hold. *)
THEOREM TypeCorrect == Spec /\ []FreshBlocks => []TypeOK
<1>1. Inv => TypeOK
  BY DEF Inv
<1>. QED  BY <1>1, FreshInv, PTL

(* No render takes a job off the list before each of its tiles has been    *)
(* rendered, while no block is allocated twice: num_tilecoords still grows *)
(* when the first tiles are rendered, and the gate of                      *)
(* render_tile_background does not look at its counters all at once.       *)
THEOREM FinishesComplete == Spec /\ []FreshBlocks => []NoPrematureFinish
<1>1. Inv => NoPrematureFinish
  BY DEF Inv, GateInv, NoPrematureFinish, At, Over
<1>. QED  BY <1>1, FreshInv, PTL

(* A job with tiles to render stays listed, while no block is allocated    *)
(* twice: the removal of another job, which moves the last entry, does not *)
(* lose it.                                                                *)
THEOREM OngoingStaysListed == Spec /\ []FreshBlocks => []OngoingListed
<1>1. Inv => OngoingListed
  BY DEF Inv, ListInv, OngoingListed, Over
<1>. QED  BY <1>1, FreshInv, PTL

-----------------------------------------------------------------------------
(* One worker: the counters a render looks at are its job's. *)
LEMMA GotoAt ==
  ASSUME ExecInv, NEW w \in Workers, exec[w].pc # "idle", NEW p, Goto(w, p)
  PROVE  /\ exec'[w].pc = p /\ exec'[w].task = exec[w].task
         /\ \A v \in Workers \ {w} : exec'[v] = exec[v]
<1>. DEFINE e == [exec[w] EXCEPT !.pc = p]
<1>1. exec[w] \in Working /\ w \in DOMAIN exec
  BY Worker DEF ExecInv
<1>2. e.pc = p /\ e.task = exec[w].task
  BY <1>1 DEF Working
<1>3. exec' = [exec EXCEPT ![w] = e]
  BY DEF Goto
<1>. HIDE DEF e
<1>. QED  BY <1>1, <1>2, <1>3 DEF ExecInv

LEMMA GateEntered ==
  ASSUME Inv, NEW w \in Workers, WorkerStep(w), exec'[w].pc \in InGate
  PROVE  /\ exec[w].pc \in InGate \cup {"addCurrent"} /\ exec'[w].task = exec[w].task
         /\ UNCHANGED <<owner, stats>>
<1>0. ExecInv /\ w \in DOMAIN exec
  BY DEF Inv, ExecInv
<1>1. CASE \E t \in queued : Take(w, t)
  <2>1. PICK t \in queued : Take(w, t)
    BY <1>1
  <2>2. /\ exec[w] = Idle /\ queued' = queued \ {t} /\ running' = running \cup {t}
        /\ UNCHANGED done
        /\ exec' = [exec EXCEPT ![w] = [pc |-> FirstPc[t.type], task |-> t, i |-> 1]]
    BY <2>1 DEF Take, Bag!Start
  <2>3. exec'[w].pc \in {"create", "count", "exists"}
    BY <1>0, <2>2, TakeSets
  <2>. QED  BY <2>3 DEF InGate
<1>2. ASSUME NEW p, exec[w].pc # "idle", Goto(w, p)
      PROVE  exec'[w].pc = p /\ exec'[w].task = exec[w].task
  BY <1>0, <1>2, GotoAt
<1>3. CASE CreateStats(w)
  BY <1>2, <1>3 DEF CreateStats, At, InGate
<1>4. ASSUME exec[w].pc \in {"postCalcs", "return"}, Return(w) PROVE FALSE
  BY <1>0, <1>4 DEF Return, Idle, InGate
<1>5. ASSUME exec[w].pc \in {"postCalcs", "postRenders"}, NEW n, exec' = [exec EXCEPT ![w].i = n]
      PROVE  FALSE
  <2>. DEFINE e == [exec[w] EXCEPT !.i = n]
  <2>1. exec[w] \in Working
    BY <1>0, <1>5, Worker
  <2>2. e.pc = exec[w].pc
    BY <2>1 DEF Working
  <2>3. exec' = [exec EXCEPT ![w] = e]
    BY <1>5
  <2>. HIDE DEF e
  <2>. QED  BY <1>0, <1>5, <2>2, <2>3 DEF InGate
<1>6. CASE PostCalc(w)
  BY <1>4, <1>5, <1>6 DEF PostCalc, At
<1>7. CASE PostRender(w)
  BY <1>2, <1>5, <1>7 DEF PostRender, At, InGate
<1>8. CASE CountBatch(w) \/ PostNextBatch(w) \/ FinishZoom(w) \/ Commit(w)
  BY <1>2, <1>8 DEF CountBatch, PostNextBatch, FinishZoom, Commit, At, InGate
<1>9. CASE CheckExists(w) \/ Render(w)
  BY <1>2, <1>9 DEF CheckExists, Render, At, InGate
<1>10. CASE AddCurrent(w)
  BY <1>2, <1>10 DEF AddCurrent, At
<1>11. CASE LoadRemain(w) \/ LoadCounts(w)
  BY <1>2, <1>11 DEF LoadRemain, LoadCounts, Gate, At, InGate, jobVars
<1>12. CASE RemovePrerender(w)
  BY <1>2, <1>12 DEF RemovePrerender, At, InGate
<1>13. CASE DestroyStats(w)
  BY <1>2, <1>13 DEF DestroyStats, At, InGate
<1>14. CASE TaskReturns(w)
  BY <1>4, <1>14 DEF TaskReturns, At
<1>. QED  BY <1>1, <1>3, <1>6, <1>7, <1>8, <1>9, <1>10, <1>11, <1>12, <1>13, <1>14 DEF WorkerStep

LEMMA OneAliveStep ==
  ASSUME OneWorker, Inv, OneAlive, [Next]_vars
  PROVE  OneAlive'
<1>1. ASSUME NEW w \in Workers, WorkerStep(w) PROVE OneAlive'
  <2>. SUFFICES ASSUME exec'[w].pc \in InGate PROVE owner'[Ptr(w)'] = Job(w)'
    BY DEF OneAlive, OneWorker
  <2>1. /\ exec[w].pc \in InGate \cup {"addCurrent"} /\ exec'[w].task = exec[w].task
        /\ UNCHANGED <<owner, stats>>
    BY <1>1, GateEntered
  <2>2. owner[Ptr(w)] = Job(w)
    BY <2>1, AliveWriters DEF OneAlive, Alive, Ptr
  <2>. QED  BY <2>1, <2>2 DEF Ptr, Job
<1>2. ASSUME UNCHANGED exec, UNCHANGED jobVars PROVE OneAlive'
  BY <1>2 DEF OneAlive, Ptr, Job, jobVars
<1>3. ASSUME NEW j \in Jobs, StartPrerender(j) PROVE OneAlive'
  BY <1>2, <1>3 DEF StartPrerender
<1>4. ASSUME WriteBatch \/ GetStatus \/ UNCHANGED vars PROVE OneAlive'
  BY <1>2, <1>4 DEF WriteBatch, GetStatus, vars
<1>. QED  BY <1>1, <1>3, <1>4 DEF Next

LEMMA OneInv ==
  ASSUME OneWorker
  PROVE  Spec => [](Inv /\ OneAlive)
<1>1. Init => OneAlive
  BY DEF Init, OneAlive, Idle, InGate
<1>2. Inv /\ OneAlive => OwnBlock
  BY DEF OneAlive, OwnBlock, InGate
<1>3. Inv /\ OneAlive /\ [Next]_vars => Inv' /\ OneAlive'
  BY <1>2, NextInv, OneAliveStep
<1>. QED  BY <1>1, <1>3, InitInv, PTL DEF Spec

(* One worker never finds the counters of its job freed, and get_status    *)
(* never copies from a freed block: the list and the counters are locked   *)
(* and freed by hand in three places.                                      *)
THEOREM CountersAlive ==
  ASSUME OneWorker
  PROVE  Spec => []StatsAlive
<1>1. Inv /\ OneAlive => StatsAlive
  <2>. SUFFICES ASSUME Inv, OneAlive PROVE StatsAlive
    OBVIOUS
  <2>1. \A w \in Workers : exec[w].pc \in {"count", "finishZoom", "addCurrent"}
                           => owner[Ptr(w)] = Job(w)
    BY AliveWriters DEF Alive, Ptr
  <2>2. job_stats # "none" => owner[job_stats] # "free"
    BY DEF Inv, ListInv
  <2>. QED  BY <2>1, <2>2 DEF OneAlive, StatsAlive, InGate
<1>. QED  BY <1>1, OneInv, PTL

(* With one worker blocks may be allocated again: no job is taken off the  *)
(* list too early, and none is lost from it.                               *)
THEOREM OneWorkerSafe ==
  ASSUME OneWorker
  PROVE  Spec => [](TypeOK /\ NoPrematureFinish /\ OngoingListed)
<1>1. Inv => TypeOK /\ NoPrematureFinish /\ OngoingListed
  BY DEF Inv, GateInv, NoPrematureFinish, At, Over, ListInv, OngoingListed
<1>. QED  BY <1>1, OneInv, PTL

-----------------------------------------------------------------------------
(* What every step does to the tasks. *)
Others(w) == \A v \in Workers \ {w} : exec'[v] = exec[v]
SameWork(w) == exec'[w].task = exec[w].task /\ Others(w)

LEMMA TakeMoves ==
  ASSUME Inv, NEW w \in Workers, NEW t \in queued, Take(w, t)
  PROVE  /\ SameSets /\ Known' = Known /\ Others(w) /\ UNCHANGED jobVars
         /\ exec[w].pc = "idle" /\ exec'[w].task = t /\ exec'[w].i = 1
         /\ exec'[w].pc \in {"create", "count", "exists"}
<1>1. /\ exec[w] = Idle /\ queued' = queued \ {t} /\ running' = running \cup {t}
      /\ UNCHANGED done /\ UNCHANGED jobVars
      /\ exec' = [exec EXCEPT ![w] = [pc |-> FirstPc[t.type], task |-> t, i |-> 1]]
  BY DEF Take, Bag!Start
<1>2. /\ SameSets /\ Known' = Known /\ exec'[w].task = t /\ Others(w)
      /\ exec'[w].pc \in {"create", "count", "exists"}
  BY <1>1, TakeSets DEF Inv, Others
<1>. QED  BY <1>1, <1>2 DEF Inv, ExecInv, Idle

LEMMA ReturnMoves ==
  ASSUME Inv, NEW w \in Workers, exec[w].pc \in {"postCalcs", "return"}, Return(w)
  PROVE  SameSets /\ Known' = Known /\ Others(w) /\ exec'[w] = Idle
BY ReturnSets DEF Inv, Others

LEMMA RenderMoves ==
  ASSUME Inv, NEW w \in Workers,
         \/ CheckExists(w) \/ Render(w) \/ LoadRemain(w) \/ LoadCounts(w)
         \/ RemovePrerender(w) \/ DestroyStats(w) \/ Commit(w)
  PROVE  /\ SameSets /\ Known' = Known /\ SameWork(w) /\ UNCHANGED <<stats, rendered>>
         /\ Passes(exec[w].pc, exec'[w].pc)
         /\ exec[w].pc \in {"exists", "render", "commit"} \cup InGate
         /\ exec'[w].pc \in {"render", "addCurrent"} \cup AfterAdd
<1>1. PICK p : /\ Goto(w, p) /\ Passes(exec[w].pc, p) /\ UNCHANGED bagVars
               /\ exec[w].pc \in {"exists", "render", "commit"} \cup InGate
               /\ p \in {"render", "addCurrent"} \cup AfterAdd
  BY DEF CheckExists, Render, LoadRemain, LoadCounts, Gate, RemovePrerender, DestroyStats, Commit,
         At, Passes, InGate, AfterAdd
<1>2. UNCHANGED <<stats, rendered>>
  BY DEF CheckExists, Render, LoadRemain, LoadCounts, RemovePrerender, DestroyStats, Commit,
         jobVars
<1>3. PICK e : Walks(w, e, {}) /\ e.pc = p
  BY <1>1, RenderGoto
<1>4. /\ Known' = Known \cup {}
      /\ exec'[w] = e /\ e.task = exec[w].task
      /\ \A v \in Workers \ {w} : exec'[v] = exec[v]
      /\ SetUp' = SetUp /\ Counted' = Counted /\ Added' = Added
      /\ Returned' = Returned \cup {t \in {exec[w].task} : exec[w].pc = "nextBatch"}
  BY <1>1, <1>3, PassSets
<1>. QED  BY <1>1, <1>2, <1>3, <1>4 DEF SameSets, SameWork, Others, InGate

LEMMA WriterMoves ==
  ASSUME Inv, NEW w \in Workers,
         CreateStats(w) \/ CountBatch(w) \/ FinishZoom(w) \/ AddCurrent(w)
  PROVE  /\ Known' = Known /\ SameWork(w) /\ exec'[w].i = exec[w].i
         /\ SetUp' = SetUp \cup {t \in {exec[w].task} : CreateStats(w)}
         /\ Counted' = Counted \cup {t \in {exec[w].task} : CountBatch(w)}
         /\ Returned' = Returned \cup {t \in {exec[w].task} : FinishZoom(w)}
         /\ Added' = Added \cup {t \in {exec[w].task} : AddCurrent(w)}
         /\ CreateStats(w) => exec[w].pc = "create" /\ exec'[w].pc = "postCalcs"
         /\ CountBatch(w) => exec[w].pc = "count" /\ exec'[w].pc = "postRenders"
         /\ FinishZoom(w) => exec[w].pc = "finishZoom" /\ exec'[w].pc = "return"
         /\ AddCurrent(w) => exec[w].pc = "addCurrent" /\ exec'[w].pc = "loadRemain"
<1>1. /\ CreateStats(w) => exec[w].pc = "create" /\ Goto(w, "postCalcs")
      /\ CountBatch(w) => exec[w].pc = "count" /\ Goto(w, "postRenders")
      /\ FinishZoom(w) => exec[w].pc = "finishZoom" /\ Goto(w, "return")
      /\ AddCurrent(w) => exec[w].pc = "addCurrent" /\ Goto(w, "loadRemain")
      /\ UNCHANGED bagVars
  BY DEF CreateStats, CountBatch, FinishZoom, AddCurrent, At
<1>2. PICK p : /\ Goto(w, p)
               /\ \/ exec[w].pc = "create" /\ p = "postCalcs"
                  \/ exec[w].pc = "count" /\ p = "postRenders"
                  \/ exec[w].pc = "finishZoom" /\ p = "return"
                  \/ exec[w].pc = "addCurrent" /\ p = "loadRemain"
               /\ p = "postCalcs" <=> CreateStats(w)
               /\ p = "postRenders" <=> CountBatch(w)
               /\ p = "return" <=> FinishZoom(w)
               /\ p = "loadRemain" <=> AddCurrent(w)
  <2>1. CASE CreateStats(w)
    BY <1>1, <2>1
  <2>2. CASE CountBatch(w)
    BY <1>1, <2>2
  <2>3. CASE FinishZoom(w)
    BY <1>1, <2>3
  <2>4. CASE AddCurrent(w)
    BY <1>1, <2>4
  <2>. QED  BY <2>1, <2>2, <2>3, <2>4
<1>3. /\ Known' = Known /\ SameWork(w) /\ exec'[w].pc = p /\ exec'[w].i = exec[w].i
      /\ SetUp' = SetUp \cup {t \in {exec[w].task} : p = "postCalcs"}
      /\ Counted' = Counted \cup {t \in {exec[w].task} : p = "postRenders"}
      /\ Returned' = Returned \cup {t \in {exec[w].task} : p = "return"}
      /\ Added' = Added \cup {t \in {exec[w].task} : p = "loadRemain"}
  BY <1>1, <1>2, WriterWalk DEF SameWork, Others
<1>. QED  BY <1>1, <1>2, <1>3


LEMMA PassMoves ==
  ASSUME Inv, NEW w \in Workers, NEW e, NEW new, Walks(w, e, new), Passes(exec[w].pc, e.pc)
  PROVE  /\ Known' = Known \cup new /\ SameWork(w) /\ exec'[w] = e
         /\ SetUp' = SetUp /\ Counted' = Counted /\ Added' = Added
         /\ Returned' = Returned \cup {t \in {exec[w].task} : exec[w].pc = "nextBatch"}
         /\ \A j \in Jobs : Remaining(j)' = Remaining(j)
BY PassSets DEF SameWork, Others

(* What is known, or still to be posted, remains so. *)
PostSame ==
  /\ Known \subseteq Known' /\ Counted' = Counted /\ Returned' = Returned
  /\ \A t \in Known' : t \in Known \/ t.type # "calc"
  /\ \A j \in Jobs : Started(j)' => Started(j)
  /\ \A w \in Workers : exec[w].pc \in {"postCalcs", "postRenders"} => exec'[w] = exec[w]
  /\ \A w \in Workers : exec'[w].pc \in {"create", "count"} => exec'[w].i = 1

LEMMA PostKept ==
  ASSUME PostInv, PostSame
  PROVE  PostInv'
<1>1. ZoomsPosted'
  BY DEF PostInv, PostSame, ZoomsPosted, At
<1>2. RendersPosted'
  <2>1. \A c : Batch(c)' = Batch(c)
    BY DEF Batch
  <2>. QED  BY <2>1 DEF PostInv, PostSame, RendersPosted, At
<1>3. BatchesPosted'
  <2>. SUFFICES ASSUME NEW j \in Jobs, NEW z \in Zooms(j), CalcTask(j, z, 1) \in Known'
                PROVE  \E b \in DOMAIN Batches[j][z] :
                         /\ CalcTask(j, z, b) \in Known'
                         /\ CalcTask(j, z, b) \in Returned' => b = Len(Batches[j][z])
    BY DEF BatchesPosted, Zooms
  <2>1. CalcTask(j, z, 1) \in Known
    BY TaskFields DEF PostSame
  <2>. QED  BY <2>1 DEF PostInv, PostSame, BatchesPosted
<1>. QED  BY <1>1, <1>2, <1>3 DEF PostInv, PostSame

LEMMA PostStands ==
  ASSUME Inv, PostInv, UNCHANGED <<exec, running, done>>, UNCHANGED stats,
         NEW new \in SUBSET (Tasks \ Known), queued' = queued \cup new,
         \A t \in new : t.type # "calc"
  PROVE  PostInv'
<1>1. SameSets /\ Known' = Known \cup new
  BY StandSets DEF Inv
<1>2. PostSame
  BY <1>1 DEF PostSame, SameSets, Started, PostInv
<1>. QED  BY <1>2, PostKept

LEMMA PostAway ==
  ASSUME Inv, PostInv, NEW w \in Workers, Known' = Known, Others(w), UNCHANGED stats,
         SameSets, exec[w].pc \notin {"postCalcs", "postRenders"},
         exec'[w].pc \in {"create", "count"} => exec'[w].i = 1
  PROVE  PostInv'
<1>1. PostSame
  BY DEF PostSame, SameSets, Others, Started, PostInv
<1>. QED  BY <1>1, PostKept

LEMMA PostCreateStats ==
  ASSUME Inv, PostInv, NEW w \in Workers, CreateStats(w)
  PROVE  PostInv'
<1>1. /\ Known' = Known /\ SameWork(w) /\ exec'[w].i = exec[w].i
      /\ Counted' = Counted /\ Returned' = Returned
      /\ exec[w].pc = "create" /\ exec'[w].pc = "postCalcs" /\ exec[w].i = 1
  <2>1. exec[w].pc = "create" /\ exec[w].i = 1
    BY DEF CreateStats, At, PostInv
  <2>. QED  BY <2>1, WriterMoves
<1>2. PICK j \in Jobs : j = Job(w) /\ exec[w].task = SetupTask(j)
  BY <1>1, Where, KindsOfTask DEF Inv, Job
<1>3. \A k \in Jobs \ {j} : Started(k)' => Started(k)
  BY <1>2, Types DEF CreateStats, Started, Inv, JobTyped
<1>4. /\ exec'[w].task = SetupTask(j) /\ exec'[w].i = 1
      /\ \A v \in Workers : exec[v].pc \in {"postCalcs", "postRenders"} => exec'[v] = exec[v]
      /\ \A v \in Workers : exec'[v].pc \in {"create", "count"} => exec'[v].i = 1
  BY <1>1, <1>2 DEF SameWork, Others, PostInv
<1>5. ZoomsPosted'
  <2>. SUFFICES ASSUME NEW k \in Jobs, NEW z \in Zooms(k), Started(k)',
                       CalcTask(k, z, 1) \notin Known
                PROVE  \E v \in Workers : /\ exec'[v].pc = "postCalcs"
                                          /\ exec'[v].task = SetupTask(k) /\ exec'[v].i <= z
    BY <1>1 DEF ZoomsPosted, At, Zooms
  <2>1. CASE k = j
    <3>1. 1 <= z
      BY JobData
    <3>. QED  BY <1>1, <1>4, <2>1, <3>1
  <2>2. CASE k # j
    BY <1>3, <1>4, <2>2 DEF PostInv, ZoomsPosted, At
  <2>. QED  BY <2>1, <2>2
<1>6. RendersPosted'
  <2>1. \A c : Batch(c)' = Batch(c)
    BY DEF Batch
  <2>. QED  BY <1>1, <1>4, <2>1 DEF PostInv, RendersPosted, At
<1>7. BatchesPosted'
  BY <1>1 DEF PostInv, BatchesPosted, Zooms
<1>. QED  BY <1>4, <1>5, <1>6, <1>7 DEF PostInv

LEMMA PostPostCalc ==
  ASSUME Inv, PostInv, NEW w \in Workers, PostCalc(w)
  PROVE  PostInv'
<1>1. /\ exec[w].pc = "postCalcs" /\ UNCHANGED stats /\ exec[w].task = SetupTask(Job(w))
      /\ Job(w) \in Jobs /\ exec[w].i \in Nat \ {0}
  <2>1. exec[w].pc = "postCalcs" /\ UNCHANGED stats
    BY DEF PostCalc, At, jobVars
  <2>. QED  BY <2>1, Where, KindsOfTask, Worker DEF Inv, Job
<1>2. PICK j \in Jobs, i \in Nat \ {0} : j = Job(w) /\ i = exec[w].i
  BY <1>1
<1>3. \A k \in Jobs : Started(k)' => Started(k)
  BY <1>1 DEF Started
<1>4. CASE i \notin Zooms(j) /\ Return(w)
  <2>1. SameSets /\ Known' = Known /\ Others(w) /\ exec'[w] = Idle
    BY <1>1, <1>4, ReturnMoves
  <2>2. \A z \in Zooms(j) : ~(i <= z)
    BY <1>4, JobData
  <2>3. /\ Counted' = Counted /\ Returned' = Returned
        /\ \A v \in Workers \ {w} : exec'[v] = exec[v]
        /\ exec'[w].pc = "idle"
    BY <2>1 DEF SameSets, Others, Idle
  <2>4. ZoomsPosted'
    <3>. SUFFICES ASSUME NEW k \in Jobs, NEW z \in Zooms(k), Started(k),
                         CalcTask(k, z, 1) \notin Known
                  PROVE  \E v \in Workers : /\ exec'[v].pc = "postCalcs"
                                            /\ exec'[v].task = SetupTask(k) /\ exec'[v].i <= z
      BY <1>3, <2>1 DEF ZoomsPosted, At, Zooms
    <3>1. PICK v \in Workers : /\ exec[v].pc = "postCalcs"
                               /\ exec[v].task = SetupTask(k) /\ exec[v].i <= z
      BY DEF PostInv, ZoomsPosted, At
    <3>2. v # w
      BY <1>1, <1>2, <2>2, <3>1, TaskFields
    <3>. QED  BY <2>3, <3>1, <3>2
  <2>5. RendersPosted'
    <3>1. \A c : Batch(c)' = Batch(c)
      BY DEF Batch
    <3>. QED  BY <1>1, <2>1, <2>3, <3>1 DEF PostInv, RendersPosted, At
  <2>6. BatchesPosted'
    BY <2>1, <2>3 DEF PostInv, BatchesPosted, Zooms
  <2>. QED  BY <2>3, <2>4, <2>5, <2>6 DEF PostInv
<1>5. ASSUME i \in Zooms(j), CalcTask(j, i, 1) \notin Known,
             NEW e, Walks(w, e, {CalcTask(j, i, 1)}), e.pc = "postCalcs", e.i = i + 1
      PROVE  PostInv'
  <2>1. /\ Known' = Known \cup {CalcTask(j, i, 1)} /\ SameWork(w) /\ exec'[w] = e
        /\ Counted' = Counted /\ Returned' = Returned
    <3>1. Passes(exec[w].pc, e.pc)
      BY <1>1, <1>5 DEF Passes
    <3>. QED  BY <1>1, <1>5, <3>1, PassMoves
  <2>2. /\ \A v \in Workers \ {w} : exec'[v] = exec[v]
        /\ exec'[w].pc = "postCalcs" /\ exec'[w].task = SetupTask(j) /\ exec'[w].i = i + 1
    BY <1>1, <1>2, <1>5, <2>1 DEF SameWork, Others
  <2>3. ZoomsPosted'
    <3>. SUFFICES ASSUME NEW k \in Jobs, NEW z \in Zooms(k), Started(k),
                         CalcTask(k, z, 1) \notin Known'
                  PROVE  \E v \in Workers : /\ exec'[v].pc = "postCalcs"
                                            /\ exec'[v].task = SetupTask(k) /\ exec'[v].i <= z
      BY <1>3 DEF ZoomsPosted, At, Zooms
    <3>1. PICK v \in Workers : /\ exec[v].pc = "postCalcs"
                               /\ exec[v].task = SetupTask(k) /\ exec[v].i <= z
      BY <2>1 DEF PostInv, ZoomsPosted, At
    <3>2. CASE v # w
      BY <2>2, <3>1, <3>2
    <3>3. CASE v = w
      <4>1. k = j /\ i <= z /\ z \in Nat
        BY <1>1, <1>2, <3>1, <3>3, TaskFields, JobData
      <4>2. z # i
        BY <2>1, <4>1
      <4>. QED  BY <2>2, <4>1, <4>2
    <3>. QED  BY <3>2, <3>3
  <2>4. RendersPosted'
    <3>1. \A c : Batch(c)' = Batch(c)
      BY DEF Batch
    <3>. QED  BY <1>1, <2>1, <2>2, <3>1 DEF PostInv, RendersPosted, At
  <2>5. BatchesPosted'
    <3>. SUFFICES ASSUME NEW k \in Jobs, NEW z \in Zooms(k), CalcTask(k, z, 1) \in Known'
                  PROVE  \E b \in DOMAIN Batches[k][z] :
                           /\ CalcTask(k, z, b) \in Known'
                           /\ CalcTask(k, z, b) \in Returned' => b = Len(Batches[k][z])
      BY DEF BatchesPosted, Zooms
    <3>1. CASE CalcTask(k, z, 1) \in Known
      BY <2>1, <3>1 DEF PostInv, BatchesPosted
    <3>2. CASE CalcTask(k, z, 1) \notin Known
      <4>1. CalcTask(k, z, 1) \notin Returned'
        BY <1>1, <2>1, <3>2, Came DEF Inv
      <4>2. 1 \in DOMAIN Batches[k][z]
        BY JobData
      <4>. QED  BY <4>1, <4>2
    <3>. QED  BY <3>1, <3>2
  <2>. QED  BY <2>2, <2>3, <2>4, <2>5 DEF PostInv
<1>. QED
  <2>. DEFINE t == CalcTask(Job(w), exec[w].i, 1)
  <2>1. \/ exec[w].i \notin Zooms(Job(w)) /\ Return(w)
        \/ /\ exec[w].i \in Zooms(Job(w)) /\ t \notin Known
           /\ \E e : Walks(w, e, {t}) /\ e.pc = "postCalcs" /\ e.i = exec[w].i + 1
    BY PostCalcWalk
  <2>. QED  BY <1>2, <1>4, <1>5, <2>1

LEMMA PostCountBatch ==
  ASSUME Inv, PostInv, NEW w \in Workers, CountBatch(w)
  PROVE  PostInv'
<1>1. PICK c : c = exec[w].task
  OBVIOUS
<1>2. /\ Known' = Known /\ SameWork(w) /\ exec'[w].i = 1
      /\ Counted' = Counted \cup {c} /\ Returned' = Returned /\ UNCHANGED stats
      /\ exec[w].pc = "count" /\ exec'[w].pc = "postRenders" /\ c \in OfType("calc")
  <2>1. exec[w].pc = "count" /\ exec[w].i = 1 /\ UNCHANGED stats
    BY DEF CountBatch, At, PostInv
  <2>. QED  BY <1>1, <2>1, WriterMoves, Where DEF Inv
<1>3. /\ exec'[w].task = c
      /\ \A v \in Workers : exec[v].pc \in {"postCalcs", "postRenders"} => exec'[v] = exec[v]
      /\ \A v \in Workers : exec'[v].pc \in {"create", "count"} => exec'[v].i = 1
  BY <1>1, <1>2 DEF SameWork, Others, PostInv
<1>4. ZoomsPosted'
  BY <1>2, <1>3 DEF PostInv, ZoomsPosted, At, Started, Zooms
<1>5. RendersPosted'
  <2>1. \A d : Batch(d)' = Batch(d)
    BY DEF Batch
  <2>2. ASSUME NEW i \in DOMAIN Batch(c)
        PROVE  exec'[w].pc = "postRenders" /\ exec'[w].task = c /\ exec'[w].i <= i
    BY <1>2, <1>3, BatchTiles
  <2>. QED  BY <1>2, <1>3, <2>1, <2>2 DEF PostInv, RendersPosted, At
<1>6. BatchesPosted'
  BY <1>2 DEF PostInv, BatchesPosted, Zooms
<1>. QED  BY <1>3, <1>4, <1>5, <1>6 DEF PostInv

LEMMA PostPostRender ==
  ASSUME Inv, PostInv, NEW w \in Workers, PostRender(w)
  PROVE  PostInv'
<1>1. /\ exec[w].pc = "postRenders" /\ UNCHANGED stats /\ exec[w].task \in OfType("calc")
      /\ exec[w].i \in Nat \ {0}
  <2>1. exec[w].pc = "postRenders" /\ UNCHANGED stats
    BY DEF PostRender, At, jobVars
  <2>. QED  BY <2>1, Where, Worker DEF Inv
<1>2. PICK c \in OfType("calc"), i \in Nat \ {0} : c = exec[w].task /\ i = exec[w].i
  BY <1>1
<1>. DEFINE t == RenderTask(c.job, Batch(c)[i])
<1>3. PICK e, new :
        /\ Walks(w, e, new) /\ Passes(exec[w].pc, e.pc)
        /\ \/ ~(i <= Len(Batch(c))) /\ new = {}
           \/ i <= Len(Batch(c)) /\ new = {t} /\ e.pc = "postRenders" /\ e.i = i + 1
  <2>1. \/ ~(i <= Len(Batch(c))) /\ \E e : Walks(w, e, {}) /\ e.pc \in {"nextBatch", "finishZoom"}
        \/ /\ i <= Len(Batch(c))
           /\ \E e : Walks(w, e, {t}) /\ e.pc = "postRenders" /\ e.i = i + 1
    BY <1>2, PostRenderWalk
  <2>2. \A e : e.pc \in {"postRenders", "nextBatch", "finishZoom"} => Passes(exec[w].pc, e.pc)
    BY <1>1 DEF Passes
  <2>. HIDE DEF t
  <2>. QED  BY <2>1, <2>2
<1>4. /\ Known' = Known \cup new /\ SameWork(w) /\ exec'[w] = e
      /\ Counted' = Counted /\ Returned' = Returned
  BY <1>1, <1>3, PassMoves
<1>5. /\ \A v \in Workers \ {w} : exec'[v] = exec[v]
      /\ e.task = c /\ e.pc \in {"postRenders", "nextBatch", "finishZoom"}
      /\ t.type = "render"
  BY <1>1, <1>2, <1>3, <1>4, TaskFields DEF SameWork, Others, Passes, InGate
<1>. HIDE DEF t
<1>6. ZoomsPosted'
  BY <1>1, <1>4, <1>5 DEF PostInv, ZoomsPosted, At, Started, Zooms
<1>7. RendersPosted'
  <2>. SUFFICES ASSUME NEW d \in Counted, NEW k \in DOMAIN Batch(d),
                       RenderTask(d.job, Batch(d)[k]) \notin Known'
                PROVE  \E v \in Workers : /\ exec'[v].pc = "postRenders"
                                          /\ exec'[v].task = d /\ exec'[v].i <= k
    BY <1>4 DEF RendersPosted, At, Batch
  <2>1. PICK v \in Workers : /\ exec[v].pc = "postRenders"
                             /\ exec[v].task = d /\ exec[v].i <= k
    BY <1>4 DEF PostInv, RendersPosted, At
  <2>2. CASE v # w
    BY <1>5, <2>1, <2>2
  <2>3. CASE v = w
    <3>1. d = c /\ i <= k /\ k \in Nat /\ k <= Len(Batch(c)) /\ Len(Batch(c)) \in Nat
      BY <1>2, <2>1, <2>3, BatchTiles
    <3>2. new = {t} /\ e.pc = "postRenders" /\ e.i = i + 1
      BY <1>3, <3>1
    <3>3. k # i
      BY <1>4, <3>1, <3>2 DEF t
    <3>. QED  BY <1>4, <1>5, <3>1, <3>2, <3>3
  <2>. QED  BY <2>2, <2>3
<1>8. BatchesPosted'
  <2>. SUFFICES ASSUME NEW j \in Jobs, NEW z \in Zooms(j), CalcTask(j, z, 1) \in Known'
                PROVE  \E b \in DOMAIN Batches[j][z] :
                         /\ CalcTask(j, z, b) \in Known'
                         /\ CalcTask(j, z, b) \in Returned' => b = Len(Batches[j][z])
    BY DEF BatchesPosted, Zooms
  <2>1. CalcTask(j, z, 1) \in Known
    BY <1>3, <1>4, <1>5, TaskFields
  <2>. QED  BY <1>4, <2>1 DEF PostInv, BatchesPosted
<1>. QED  BY <1>4, <1>5, <1>6, <1>7, <1>8 DEF PostInv

(* A zoom's calculations end with its last one. *)
LEMMA PostEnds ==
  ASSUME Inv, PostInv, NEW w \in Workers, PostNextBatch(w) \/ FinishZoom(w)
  PROVE  PostInv'
<1>1. PICK c \in OfType("calc") : c = exec[w].task
  <2>1. exec[w].pc \in {"nextBatch", "finishZoom"}
    BY DEF PostNextBatch, FinishZoom, At
  <2>. QED  BY <2>1, Where DEF Inv
<1>. DEFINE next == CalcTask(c.job, c.zoom, c.batch + 1)
<1>2. /\ Known \subseteq Known' /\ Others(w) /\ UNCHANGED stats
      /\ Counted' = Counted /\ Returned' = Returned \cup {c}
      /\ exec[w].pc \in {"nextBatch", "finishZoom"} /\ exec'[w].pc = "return"
      /\ \/ /\ next \in Known' /\ next \notin Known /\ Known' = Known \cup {next}
            /\ c.batch + 1 \in DOMAIN Batches[c.job][c.zoom]
         \/ c.batch = Len(Batches[c.job][c.zoom]) /\ Known' = Known
  <2>1. CASE PostNextBatch(w)
    <3>1. /\ exec[w].pc = "nextBatch" /\ UNCHANGED jobVars
          /\ c.batch + 1 \in DOMAIN Batches[c.job][c.zoom] /\ next \notin Known
          /\ \E e : Walks(w, e, {next}) /\ e.pc = "return"
      BY <1>1, <2>1, PostNextBatchWalk
    <3>. HIDE DEF next
    <3>2. PICK e : Walks(w, e, {next}) /\ e.pc = "return"
      BY <3>1
    <3>3. Passes(exec[w].pc, e.pc)
      BY <3>1, <3>2 DEF Passes
    <3>4. /\ Known' = Known \cup {next} /\ SameWork(w) /\ exec'[w] = e /\ Counted' = Counted
          /\ Returned' = Returned \cup {t \in {exec[w].task} : exec[w].pc = "nextBatch"}
      BY <3>2, <3>3, PassMoves
    <3>. QED  BY <1>1, <3>1, <3>2, <3>4 DEF SameWork, jobVars
  <2>2. CASE FinishZoom(w)
    <3>1. /\ exec[w].pc = "finishZoom" /\ UNCHANGED stats /\ ~CreateStats(w) /\ ~CountBatch(w)
      BY <2>2 DEF FinishZoom, CreateStats, CountBatch, At
    <3>2. /\ Known' = Known /\ SameWork(w) /\ exec'[w].pc = "return"
          /\ Counted' = Counted /\ Returned' = Returned \cup {c}
      BY <1>1, <2>2, <3>1, WriterMoves
    <3>3. LastBatch(c)
      BY <1>1, <3>1, Worker DEF Inv, ExecInv
    <3>. QED  BY <3>1, <3>2, <3>3 DEF SameWork, LastBatch
  <2>. QED  BY <2>1, <2>2
<1>3. \A v \in Workers : exec[v].pc \in {"postCalcs", "postRenders"} => exec'[v] = exec[v]
  BY <1>2 DEF Others
<1>4. \A v \in Workers : exec'[v].pc \in {"create", "count"} => exec'[v].i = 1
  BY <1>2 DEF Others, PostInv
<1>5. ZoomsPosted'
  BY <1>2, <1>3 DEF PostInv, ZoomsPosted, At, Started, Zooms
<1>6. RendersPosted'
  <2>1. \A d : Batch(d)' = Batch(d)
    BY DEF Batch
  <2>. QED  BY <1>2, <1>3, <2>1 DEF PostInv, RendersPosted, At
<1>7. BatchesPosted'
  <2>. SUFFICES ASSUME NEW j \in Jobs, NEW z \in Zooms(j), CalcTask(j, z, 1) \in Known'
                PROVE  \E b \in DOMAIN Batches[j][z] :
                         /\ CalcTask(j, z, b) \in Known'
                         /\ CalcTask(j, z, b) \in Returned' => b = Len(Batches[j][z])
    BY DEF BatchesPosted, Zooms
  <2>1. c.batch \in Nat \ {0} /\ c = CalcTask(c.job, c.zoom, c.batch)
    BY KindsOfTask, JobData
  <2>2. CalcTask(j, z, 1) \in Known
    <3>1. c.batch + 1 # 1
      BY <2>1
    <3>. QED  BY <1>2, <3>1, TaskFields
  <2>3. PICK b \in DOMAIN Batches[j][z] :
          /\ CalcTask(j, z, b) \in Known
          /\ CalcTask(j, z, b) \in Returned => b = Len(Batches[j][z])
    BY <2>2 DEF PostInv, BatchesPosted
  <2>4. CASE CalcTask(j, z, b) # c
    BY <1>2, <2>3, <2>4
  <2>5. CASE CalcTask(j, z, b) = c /\ c.batch = Len(Batches[c.job][c.zoom])
    <3>1. c.job = j /\ c.zoom = z /\ c.batch = b
      BY <2>5, TaskFields
    <3>. QED  BY <1>2, <2>3, <2>5, <3>1
  <2>6. CASE CalcTask(j, z, b) = c /\ c.batch # Len(Batches[c.job][c.zoom])
    <3>1. c.job = j /\ c.zoom = z /\ c.batch = b
      BY <2>6, TaskFields
    <3>2. /\ next \in Known' /\ next \notin Known /\ b + 1 \in DOMAIN Batches[j][z]
          /\ next = CalcTask(j, z, b + 1)
      BY <1>2, <2>6, <3>1
    <3>3. next # c
      <4>1. b + 1 # b
        BY <2>1, <3>1
      <4>. QED  BY <2>6, <3>2, <4>1, TaskFields
    <3>4. next \notin Returned'
      BY <1>1, <1>2, <3>2, <3>3, Came DEF Inv
    <3>. QED  BY <3>2, <3>4
  <2>. QED  BY <2>4, <2>5, <2>6
<1>. QED  BY <1>4, <1>5, <1>6, <1>7 DEF PostInv

LEMMA PostStep ==
  ASSUME Inv, PostInv, [Next]_vars
  PROVE  PostInv'
<1>1. ASSUME NEW w \in Workers, WorkerStep(w) PROVE PostInv'
  <2>1. CASE \E t \in queued : Take(w, t)
    <3>1. PICK t \in queued : Take(w, t)
      BY <2>1
    <3>2. /\ SameSets /\ Known' = Known /\ Others(w) /\ UNCHANGED jobVars
          /\ exec[w].pc = "idle" /\ exec'[w].i = 1
      BY <3>1, TakeMoves
    <3>. QED  BY <3>2, PostAway DEF jobVars
  <2>2. CASE CheckExists(w) \/ Render(w) \/ LoadRemain(w) \/ LoadCounts(w)
             \/ RemovePrerender(w) \/ DestroyStats(w) \/ Commit(w)
    <3>1. /\ SameSets /\ Known' = Known /\ Others(w) /\ UNCHANGED stats
          /\ exec[w].pc \in {"exists", "render", "commit"} \cup InGate
          /\ exec'[w].pc \in {"render", "addCurrent"} \cup AfterAdd
      BY <2>2, RenderMoves DEF SameWork
    <3>2. exec[w].pc \notin {"postCalcs", "postRenders"} /\ exec'[w].pc \notin {"create", "count"}
      BY <3>1 DEF AfterAdd, InGate
    <3>. QED  BY <3>1, <3>2, PostAway
  <2>3. CASE AddCurrent(w)
    <3>1. /\ ~CreateStats(w) /\ ~CountBatch(w) /\ ~FinishZoom(w) /\ UNCHANGED stats
      BY <2>3 DEF AddCurrent, CreateStats, CountBatch, FinishZoom, At
    <3>2. /\ Known' = Known /\ SameWork(w)
          /\ Counted' = Counted /\ Returned' = Returned
          /\ exec[w].pc = "addCurrent" /\ exec'[w].pc = "loadRemain"
      BY <2>3, <3>1, WriterMoves
    <3>3. PostSame
      BY <3>1, <3>2 DEF PostSame, SameWork, Others, Started, PostInv
    <3>. QED  BY <3>3, PostKept
  <2>4. CASE TaskReturns(w)
    <3>1. exec[w].pc = "return" /\ Return(w) /\ UNCHANGED stats
      BY <2>4 DEF TaskReturns, At, jobVars
    <3>2. SameSets /\ Known' = Known /\ Others(w) /\ exec'[w].pc = "idle"
      BY <3>1, ReturnMoves DEF Idle
    <3>. QED  BY <3>1, <3>2, PostAway
  <2>. QED  BY <1>1, <2>1, <2>2, <2>3, <2>4, PostCreateStats, PostPostCalc, PostCountBatch,
               PostPostRender, PostEnds DEF WorkerStep
<1>2. ASSUME NEW j \in Jobs, StartPrerender(j) PROVE PostInv'
  <2>1. /\ UNCHANGED <<exec, running, done>> /\ UNCHANGED stats
        /\ SetupTask(j) \in Tasks \ Known /\ queued' = queued \cup {SetupTask(j)}
        /\ SetupTask(j).type # "calc"
    BY <1>2, TaskKinds, TaskFields DEF StartPrerender, Bag!Submit, Known, OfType, jobVars
  <2>. DEFINE new == {SetupTask(j)}
  <2>2. /\ new \in SUBSET (Tasks \ Known) /\ queued' = queued \cup new
        /\ \A t \in new : t.type # "calc"
    BY <2>1
  <2>. HIDE DEF new
  <2>. QED  BY <2>1, <2>2, PostStands
<1>3. ASSUME WriteBatch \/ GetStatus \/ UNCHANGED vars PROVE PostInv'
  <2>1. UNCHANGED bagVars /\ UNCHANGED exec /\ UNCHANGED jobVars
    BY <1>3 DEF WriteBatch, GetStatus, vars
  <2>2. {} \in SUBSET (Tasks \ Known) /\ queued' = queued \cup {}
        /\ UNCHANGED <<exec, running, done>> /\ UNCHANGED stats
    BY <2>1 DEF bagVars, jobVars
  <2>. QED  BY <2>2, PostStands
<1>. QED  BY <1>1, <1>2, <1>3 DEF Next

-----------------------------------------------------------------------------
(* One worker: whoever completes a job goes on to free it. *)
OverSame ==
  /\ UNCHANGED <<owner, stats, rendered>>
  /\ \A j \in Jobs : Remaining(j)' = Remaining(j)
  /\ \A w \in Workers : exec[w].pc \in InGate =>
       exec'[w].pc \in InGate /\ exec'[w].task = exec[w].task
  /\ \A w \in Workers : Active(w)' /\ exec'[w].task.type = "calc" =>
       \/ Active(w) /\ exec'[w].task = exec[w].task
       \/ exec'[w].task \in OfType("calc") \ Counted

LEMMA NotCounted ==
  ASSUME Inv, NEW c \in OfType("calc") \ Counted
  PROVE  Elems(Batch(c)) \cap rendered = {}
<1>1. Elems(Batch(c)) \subseteq TilesOf(c.job) /\ c.job \in Jobs
  BY BatchTiles, KindsOfTask
<1>2. Elems(Batch(c)) \cap CountedOf(c.job) = {}
  BY TileOwner DEF CountedOf, Counted
<1>. QED  BY <1>1, <1>2, StartedJob

LEMMA OverKept ==
  ASSUME Inv, OneOver, OverSame
  PROVE  OneOver'
<1>1. ASSUME NEW w \in Workers, Active(w)', exec'[w].task.type = "calc"
      PROVE  Elems(BatchOf(w)') \cap rendered' = {}
  <2>1. BatchOf(w)' = Batch(exec'[w].task)
    BY DEF BatchOf, Batch
  <2>2. rendered' = rendered
    BY DEF OverSame
  <2>3. CASE Active(w) /\ exec'[w].task = exec[w].task
    BY <1>1, <2>1, <2>2, <2>3 DEF OneOver, BatchOf, Batch
  <2>4. CASE exec'[w].task \in OfType("calc") \ Counted
    BY <2>1, <2>2, <2>4, NotCounted
  <2>. QED  BY <1>1, <2>3, <2>4 DEF OverSame
<1>2. ASSUME NEW j \in Jobs
      PROVE  /\ Alive(j)' <=> Alive(j)
             /\ Over(j)' <=> Over(j)
  BY DEF OverSame, Alive, Started, Over, Complete, AllZooms, TilesOf
<1>3. ASSUME NEW j \in Jobs, Alive(j)', Over(j)'
      PROVE  \E w \in Workers : exec'[w].pc \in InGate /\ exec'[w].task.job = j
  <2>1. PICK w \in Workers : exec[w].pc \in InGate /\ exec[w].task.job = j
    BY <1>2, <1>3 DEF OneOver, Job
  <2>. QED  BY <2>1 DEF OverSame
<1>4. \A w \in Workers : (Active(w) /\ exec[w].task.type = "calc" =>
                            Elems(BatchOf(w)) \cap rendered = {})'
  BY <1>1 DEF Elems
<1>. QED  BY <1>3, <1>4 DEF OneOver, Job

(* The steps of a worker that keep what the gate looks at. *)
LEMMA OverTake ==
  ASSUME Inv, OneOver, NEW w \in Workers, NEW t \in queued, Take(w, t)
  PROVE  OneOver'
<1>1. /\ SameSets /\ Known' = Known /\ Others(w) /\ UNCHANGED jobVars
      /\ exec[w].pc = "idle" /\ exec'[w].task = t
  BY TakeMoves
<1>2. t.type = "calc" => t \in OfType("calc") \ Counted
  <2>1. t \in Tasks /\ t \notin done /\ t \notin running
    BY DEF Inv, ExecInv, Known
  <2>2. \A v \in Workers : exec[v].pc \in AfterCount => exec[v].task \in running
    BY Worker DEF Inv, AfterCount
  <2>3. ~Reached(t, AfterCount)
    BY <2>1, <2>2 DEF Reached
  <2>. QED  BY <2>1, <2>3 DEF OfType, Counted
<1>3. OverSame
  <2>1. \A j \in Jobs : Remaining(j)' = Remaining(j)
    BY <1>1, SameSetsQuiet DEF Quiet, SameJobs
  <2>. QED  BY <1>1, <1>2, <2>1 DEF OverSame, Others, Active, InGate, jobVars
<1>. QED  BY <1>3, OverKept

LEMMA OverReturn ==
  ASSUME Inv, OneOver, NEW w \in Workers, exec[w].pc \in {"postCalcs", "return"}, Return(w),
         UNCHANGED jobVars
  PROVE  OneOver'
<1>1. SameSets /\ Known' = Known /\ Others(w) /\ exec'[w] = Idle
  BY ReturnMoves
<1>2. OverSame
  <2>1. \A j \in Jobs : Remaining(j)' = Remaining(j)
    BY <1>1, SameSetsQuiet DEF Quiet, SameJobs
  <2>. QED  BY <1>1, <2>1 DEF OverSame, Others, Active, InGate, jobVars
<1>. QED  BY <1>2, OverKept

(* A worker that goes on, and stays in the gate if it was there. *)
LEMMA OverGoesOn ==
  ASSUME Inv, OneOver, NEW w \in Workers, SameWork(w), exec[w].pc # "idle",
         exec[w].pc \in InGate => exec'[w].pc \in InGate,
         UNCHANGED <<owner, stats, rendered>>,
         \A j \in Jobs : Remaining(j)' = Remaining(j)
  PROVE  OneOver'
<1>1. Active(w)
  BY Worker DEF Inv
<1>2. OverSame
  BY <1>1 DEF OverSame, SameWork, Others, Active
<1>. QED  BY <1>2, OverKept

LEMMA OverPosts ==
  ASSUME Inv, OneOver, NEW w \in Workers, PostCalc(w) \/ PostRender(w) \/ PostNextBatch(w)
  PROVE  OneOver'
<1>1. UNCHANGED jobVars /\ exec[w].pc \in {"postCalcs", "postRenders", "nextBatch"}
  BY DEF PostCalc, PostRender, PostNextBatch, At
<1>2. \/ exec[w].pc = "postCalcs" /\ Return(w)
      \/ \E e, new : Walks(w, e, new) /\ Passes(exec[w].pc, e.pc)
  <2>1. CASE PostCalc(w)
    <3>. DEFINE t == CalcTask(Job(w), exec[w].i, 1)
    <3>1. /\ exec[w].pc = "postCalcs"
          /\ Return(w) \/ \E e : Walks(w, e, {t}) /\ e.pc = "postCalcs"
      BY <2>1, PostCalcWalk
    <3>. HIDE DEF t
    <3>2. CASE Return(w)
      BY <3>1, <3>2
    <3>3. CASE \E e : Walks(w, e, {t}) /\ e.pc = "postCalcs"
      BY <3>1, <3>3 DEF Passes
    <3>. QED  BY <3>1, <3>2, <3>3
  <2>2. CASE PostRender(w)
    <3>. DEFINE t == RenderTask(exec[w].task.job, Batch(exec[w].task)[exec[w].i])
    <3>1. /\ exec[w].pc = "postRenders"
          /\ \/ \E e : Walks(w, e, {}) /\ e.pc \in {"nextBatch", "finishZoom"}
             \/ \E e : Walks(w, e, {t}) /\ e.pc = "postRenders"
      BY <2>2, PostRenderWalk
    <3>. HIDE DEF t
    <3>. QED  BY <3>1 DEF Passes
  <2>3. CASE PostNextBatch(w)
    <3>. DEFINE t == CalcTask(exec[w].task.job, exec[w].task.zoom, exec[w].task.batch + 1)
    <3>1. exec[w].pc = "nextBatch" /\ \E e : Walks(w, e, {t}) /\ e.pc = "return"
      BY <2>3, PostNextBatchWalk
    <3>. HIDE DEF t
    <3>. QED  BY <3>1 DEF Passes
  <2>. QED  BY <2>1, <2>2, <2>3
<1>3. ASSUME NEW e, NEW new, Walks(w, e, new), Passes(exec[w].pc, e.pc) PROVE OneOver'
  <2>1. SameWork(w) /\ \A j \in Jobs : Remaining(j)' = Remaining(j)
    BY <1>3, PassMoves
  <2>2. UNCHANGED <<owner, stats, rendered>> /\ exec[w].pc # "idle" /\ exec[w].pc \notin InGate
    BY <1>1 DEF jobVars, InGate
  <2>. QED  BY <2>1, <2>2, OverGoesOn
<1>. QED  BY <1>1, <1>2, <1>3, OverReturn

LEMMA OverRenders ==
  ASSUME Inv, OneOver, NEW w \in Workers,
         \/ CheckExists(w) \/ Render(w) \/ LoadRemain(w) \/ LoadCounts(w)
         \/ RemovePrerender(w) \/ Commit(w),
         exec[w].pc \in InGate => exec'[w].pc \in InGate
  PROVE  OneOver'
<1>1. /\ SameSets /\ SameWork(w) /\ UNCHANGED <<stats, rendered>>
      /\ exec[w].pc \in {"exists", "render", "commit"} \cup InGate
  BY RenderMoves
<1>2. UNCHANGED owner
  BY DEF CheckExists, Render, LoadRemain, LoadCounts, RemovePrerender, Commit, jobVars
<1>3. \A j \in Jobs : Remaining(j)' = Remaining(j)
  BY <1>1 DEF SameSets, Remaining, LastCalc, Zooms
<1>4. exec[w].pc # "idle"
  BY <1>1 DEF InGate
<1>. QED  BY <1>1, <1>2, <1>3, <1>4, OverGoesOn

(* The gate of the last render opens. *)
LEMMA OverLoads ==
  ASSUME OneWorker, Inv, OneAlive, OneOver, NEW w \in Workers, LoadRemain(w) \/ LoadCounts(w)
  PROVE  OneOver'
<1>1. /\ exec[w].pc \in {"loadRemain", "loadCounts"} /\ exec[w].pc \in InGate
      /\ LoadRemain(w) => Gate(w, counters[Ptr(w)].remain = 0, "loadCounts")
      /\ LoadCounts(w) => Gate(w, counters[Ptr(w)].cur = counters[Ptr(w)].num, "remove")
      /\ UNCHANGED jobVars
  BY DEF LoadRemain, LoadCounts, At, InGate
<1>2. PICK j \in Jobs : j = Job(w)
  BY <1>1, GateOwner
<1>3. /\ owner[stats[j]] = j /\ stats[j] = Ptr(w) /\ j # "free" /\ Alive(j)
      /\ counters[stats[j]] = CountsOf(j)
  <2>1. owner[stats[j]] = j /\ stats[j] = Ptr(w) /\ Started(j)
    BY <1>1, <1>2, StartedWorker DEF OneAlive, Ptr, InGate
  <2>. QED  BY <1>2, <2>1, Counts, PrerenderAssumption DEF Alive
<1>4. CASE Over(j)
  <2>1. counters[stats[j]].remain = 0
    BY <1>3, <1>4, RemainingFinite DEF CountsOf, Over
  <2>2. counters[stats[j]].cur = counters[stats[j]].num
    <3>1. CountedOf(j) = rendered \cap TilesOf(j)
      BY <1>4, AllCounted DEF Over, Complete
    <3>. QED  BY <1>3, <3>1 DEF CountsOf
  <2>3. Goto(w, "loadCounts") \/ Goto(w, "remove")
    BY <1>1, <1>3, <2>1, <2>2 DEF Gate
  <2>4. exec'[w].pc \in InGate
    BY <1>1, <2>3, GotoAt DEF Inv, InGate
  <2>. QED  BY <2>4, OverRenders
<1>5. CASE ~Over(j)
  <2>1. \A k \in Jobs : ~(Alive(k) /\ Over(k))
    BY <1>2, <1>5 DEF OneOver, OneWorker
  <2>2. /\ SameSets /\ SameWork(w) /\ UNCHANGED <<stats, rendered>> /\ UNCHANGED owner
        /\ Active(w)
    BY <1>1, RenderMoves, Worker DEF jobVars, Inv, InGate
  <2>3. \A k \in Jobs : /\ Alive(k)' <=> Alive(k)
                        /\ Over(k)' <=> Over(k)
    BY <2>2 DEF SameSets, Alive, Started, Over, Complete, AllZooms, TilesOf, Remaining, LastCalc,
       Zooms
  <2>4. \A v \in Workers : BatchOf(v)' = BatchOf(v) /\ exec'[v].task = exec[v].task /\ Active(v)
    BY <2>2 DEF BatchOf, SameWork, OneWorker
  <2>5. \A v \in Workers : Elems(BatchOf(v))' = Elems(BatchOf(v))
    BY <2>4 DEF Elems
  <2>. QED  BY <2>1, <2>2, <2>3, <2>4, <2>5 DEF OneOver
<1>. QED  BY <1>4, <1>5

LEMMA OverDestroy ==
  ASSUME OneWorker, Inv, OneAlive, OneOver, NEW w \in Workers, DestroyStats(w)
  PROVE  OneOver'
<1>1. /\ exec[w].pc = "destroy" /\ exec[w].pc \in InGate /\ UNCHANGED <<stats, rendered>>
      /\ owner' = [owner EXCEPT ![Ptr(w)] = "free"]
  BY DEF DestroyStats, At, InGate
<1>2. PICK j \in Jobs : j = Job(w) /\ stats[j] = Ptr(w) /\ stats[j] \in Blocks
  BY <1>1, GateOwner DEF Ptr
<1>3. /\ SameSets /\ SameWork(w) /\ Active(w)
  BY <1>1, RenderMoves, Worker DEF Inv
<1>4. \A k \in Jobs : Over(k)' <=> Over(k)
  BY <1>1, <1>3 DEF SameSets, Over, Complete, AllZooms, TilesOf, Remaining, LastCalc, Zooms
<1>5. ASSUME NEW k \in Jobs, Alive(k)', Over(k)' PROVE FALSE
  <2>1. owner \in [Blocks -> Jobs \cup {"free"}] /\ "free" \notin Jobs
    BY Types, PrerenderAssumption DEF Inv, JobTyped
  <2>2. Started(k) /\ owner'[stats[k]] = k
    BY <1>1, <1>5 DEF Alive, Started
  <2>3. stats[k] \in Blocks
    BY <2>2, Types DEF Inv, JobTyped, Started
  <2>4. stats[k] # stats[j]
    BY <1>1, <1>2, <2>1, <2>2
  <2>5. Alive(k) /\ k # j
    BY <1>1, <1>2, <2>1, <2>2, <2>3, <2>4 DEF Alive
  <2>6. Over(k)
    BY <1>4, <1>5
  <2>7. PICK v \in Workers : Job(v) = k
    BY <2>5, <2>6 DEF OneOver
  <2>. QED  BY <1>2, <2>5, <2>7 DEF OneWorker
<1>6. \A v \in Workers : BatchOf(v)' = BatchOf(v) /\ exec'[v].task = exec[v].task /\ Active(v)
  BY <1>3 DEF BatchOf, SameWork, OneWorker
<1>7. \A v \in Workers : Elems(BatchOf(v))' = Elems(BatchOf(v))
  BY <1>6 DEF Elems
<1>. QED  BY <1>1, <1>5, <1>6, <1>7 DEF OneOver

(* A job that has zooms is not over when it is set up. *)
LEMMA OverCreate ==
  ASSUME JobsHaveZooms, Inv, OneOver, NEW w \in Workers, CreateStats(w)
  PROVE  OneOver'
<1>1. /\ exec[w].pc = "create" /\ exec'[w].pc = "postCalcs" /\ SameWork(w)
      /\ Returned' = Returned /\ UNCHANGED rendered
  <2>1. exec[w].pc = "create" /\ UNCHANGED rendered
    BY DEF CreateStats, At
  <2>2. ~FinishZoom(w)
    BY <2>1 DEF FinishZoom, At
  <2>. QED  BY <2>1, <2>2, WriterMoves
<1>2. PICK j \in Jobs : j = Job(w)
  BY <1>1, Where DEF Inv
<1>3. PICK b \in Blocks :
        /\ owner[b] = "free"
        /\ owner' = [owner EXCEPT ![b] = j] /\ stats' = [stats EXCEPT ![j] = b]
  BY <1>2 DEF CreateStats
<1>4. ~Started(j)
  BY <1>1, <1>2, StartedWorker
<1>5. exec[w].task \in OfType("setup") /\ Active(w)
  BY <1>1, Where, Worker DEF Inv
<1>6. \A k \in Jobs : /\ Over(k)' <=> Over(k)
  BY <1>1 DEF Over, Complete, AllZooms, TilesOf, Remaining, LastCalc, Zooms
<1>7. ~Over(j)
  <2>1. 1 \in Zooms(j)
    BY JobData DEF JobsHaveZooms
  <2>2. LastCalc(j, 1).job = j /\ \A c \in Returned : Started(c.job)
    <3>1. Returned \subseteq Counted
      BY <1>1, Came DEF Inv
    <3>. QED  BY <3>1, StartedJob, TaskFields DEF LastCalc
  <2>3. LastCalc(j, 1) \notin Returned
    BY <1>4, <2>2
  <2>. QED  BY <2>1, <2>3 DEF Over, AllZooms, Remaining
<1>8. ASSUME NEW k \in Jobs, Alive(k)', Over(k)'
      PROVE  \E v \in Workers : exec'[v].pc \in InGate /\ exec'[v].task.job = k
  <2>1. k # j /\ Over(k)
    BY <1>6, <1>7, <1>8
  <2>2. stats'[k] = stats[k] /\ Started(k) /\ owner'[stats[k]] = k
    BY <1>3, <1>8, <2>1, Types DEF Inv, JobTyped, Alive, Started
  <2>3. Alive(k)
    BY <1>3, <2>1, <2>2, Types DEF Inv, JobTyped, Alive, Started
  <2>4. PICK v \in Workers : exec[v].pc \in InGate /\ exec[v].task.job = k
    BY <2>1, <2>3 DEF OneOver, Job
  <2>5. v # w
    BY <1>1, <2>4 DEF InGate
  <2>. QED  BY <1>1, <2>4, <2>5 DEF SameWork, Others
<1>9. ASSUME NEW v \in Workers, Active(v)', exec'[v].task.type = "calc"
      PROVE  Elems(BatchOf(v))' \cap rendered' = {}
  <2>1. v # w
    BY <1>1, <1>5, <1>9 DEF SameWork, OfType
  <2>2. exec'[v] = exec[v]
    BY <1>1, <2>1 DEF SameWork, Others
  <2>3. BatchOf(v)' = BatchOf(v) /\ Active(v)
    BY <1>9, <2>2 DEF BatchOf, Active
  <2>4. Elems(BatchOf(v))' = Elems(BatchOf(v))
    BY <2>3 DEF Elems
  <2>. QED  BY <1>1, <1>9, <2>2, <2>3, <2>4 DEF OneOver
<1>. QED  BY <1>8, <1>9 DEF OneOver, Job

LEMMA OverCountBatch ==
  ASSUME Inv, OneOver, NEW w \in Workers, CountBatch(w)
  PROVE  OneOver'
<1>1. /\ exec[w].pc = "count" /\ UNCHANGED <<owner, stats, rendered>> /\ ~FinishZoom(w)
  BY DEF CountBatch, FinishZoom, At
<1>2. SameWork(w) /\ Returned' = Returned
  BY <1>1, WriterMoves
<1>3. \A j \in Jobs : Remaining(j)' = Remaining(j)
  BY <1>2 DEF Remaining, LastCalc, Zooms
<1>. QED  BY <1>1, <1>2, <1>3, OverGoesOn DEF InGate

(* The last tiles of the last zoom to finish are still to be rendered. *)
LEMMA OverFinishZoom ==
  ASSUME Inv, OneOver, NEW w \in Workers, FinishZoom(w)
  PROVE  OneOver'
<1>1. /\ exec[w].pc = "finishZoom" /\ UNCHANGED <<owner, stats, rendered>>
      /\ ~CreateStats(w) /\ ~CountBatch(w) /\ ~AddCurrent(w)
  BY DEF FinishZoom, CreateStats, CountBatch, AddCurrent, At
<1>2. PICK c \in OfType("calc") : c = exec[w].task
  BY <1>1, Where DEF Inv
<1>3. SameWork(w) /\ Returned' = Returned \cup {c} /\ exec'[w].pc = "return"
  BY <1>1, <1>2, WriterMoves
<1>4. Active(w) /\ c.job \in Jobs /\ c.job = Job(w) /\ c.type = "calc" /\ BatchOf(w) = Batch(c)
  BY <1>1, <1>2, Worker, KindsOfTask DEF Inv, Job, OfType, BatchOf, Batch
<1>5. ~Complete(c.job)
  <2>1. Elems(Batch(c)) \cap rendered = {}
    BY <1>2, <1>4 DEF OneOver
  <2>. QED  BY <2>1, BatchTiles DEF Complete
<1>6. \A k \in Jobs : /\ Alive(k)' <=> Alive(k)
                      /\ Complete(k)' <=> Complete(k)
  BY <1>1 DEF Alive, Started, Complete, TilesOf
<1>7. \A k \in Jobs : Over(k)' => Over(k)
  <2>. SUFFICES ASSUME NEW k \in Jobs, Over(k)' PROVE Over(k)
    OBVIOUS
  <2>1. Complete(k) /\ k # c.job /\ AllZooms(k)'
    BY <1>5, <1>6 DEF Over
  <2>2. \A z \in Zooms(k) : LastCalc(k, z) \in Returned \cup {c} /\ LastCalc(k, z).job = k
    BY <1>3, <2>1, TaskFields DEF AllZooms, Remaining, LastCalc, Zooms
  <2>3. \A z \in Zooms(k) : LastCalc(k, z) \in Returned
    BY <2>1, <2>2
  <2>. QED  BY <2>1, <2>3 DEF Over, AllZooms, Remaining
<1>8. ASSUME NEW k \in Jobs, Alive(k)', Over(k)'
      PROVE  \E v \in Workers : exec'[v].pc \in InGate /\ exec'[v].task.job = k
  <2>1. PICK v \in Workers : exec[v].pc \in InGate /\ exec[v].task.job = k
    BY <1>6, <1>7, <1>8 DEF OneOver, Job
  <2>2. v # w
    BY <1>1, <2>1 DEF InGate
  <2>. QED  BY <1>3, <2>1, <2>2 DEF SameWork, Others
<1>9. ASSUME NEW v \in Workers, Active(v)', exec'[v].task.type = "calc"
      PROVE  Elems(BatchOf(v))' \cap rendered' = {}
  <2>1. exec'[v].task = exec[v].task /\ Active(v)
    BY <1>3, <1>4, <1>9 DEF SameWork, Others, Active
  <2>2. BatchOf(v)' = BatchOf(v)
    BY <2>1 DEF BatchOf
  <2>3. Elems(BatchOf(v))' = Elems(BatchOf(v))
    BY <2>2 DEF Elems
  <2>. QED  BY <1>1, <1>9, <2>1, <2>2, <2>3 DEF OneOver
<1>. QED  BY <1>8, <1>9 DEF OneOver, Job

(* The render that completes a job is in the gate. *)
LEMMA OverAddCurrent ==
  ASSUME OneWorker, Inv, OneOver, NEW w \in Workers, AddCurrent(w)
  PROVE  OneOver'
<1>1. /\ exec[w].pc = "addCurrent" /\ UNCHANGED <<owner, stats>>
      /\ rendered' = rendered \cup {exec[w].task.tile} /\ ~FinishZoom(w)
  BY DEF AddCurrent, FinishZoom, At
<1>2. SameWork(w) /\ Returned' = Returned /\ exec'[w].pc = "loadRemain"
  BY <1>1, WriterMoves
<1>3. PICK j \in Jobs : j = Job(w) /\ exec[w].task.tile \in TilesOf(j)
  BY <1>1, AliveWriters
<1>4. exec[w].task \in OfType("render")
  BY <1>1, Where DEF Inv
<1>5. \A k \in Jobs : ~(Alive(k) /\ Over(k))
  BY <1>1 DEF OneOver, OneWorker, InGate
<1>6. ASSUME NEW k \in Jobs, Alive(k)', Over(k)' PROVE k = j
  <2>. SUFFICES ASSUME k # j PROVE FALSE
    OBVIOUS
  <2>1. exec[w].task.tile \notin TilesOf(k)
    BY <1>3, TileOwner
  <2>2. Complete(k) /\ AllZooms(k) /\ Alive(k)
    BY <1>1, <1>2, <1>6, <2>1 DEF Over, Complete, AllZooms, Remaining, LastCalc, Zooms, Alive,
       Started, TilesOf
  <2>. QED  BY <1>5, <2>2 DEF Over
<1>7. exec'[w].pc \in InGate /\ exec'[w].task.job = j
  BY <1>2, <1>3 DEF InGate, SameWork, Job
<1>8. \A v \in Workers : exec'[v].task.type # "calc"
  BY <1>2, <1>4 DEF SameWork, OneWorker, OfType
<1>. QED  BY <1>6, <1>7, <1>8 DEF OneOver, Job

LEMMA OneOverStep ==
  ASSUME OneWorker, JobsHaveZooms, Inv, OneAlive, OneOver, [Next]_vars
  PROVE  OneOver'
<1>1. ASSUME NEW w \in Workers, WorkerStep(w) PROVE OneOver'
  <2>1. CASE \E t \in queued : Take(w, t)
    BY <2>1, OverTake
  <2>2. CASE TaskReturns(w)
    <3>1. exec[w].pc = "return" /\ Return(w) /\ UNCHANGED jobVars
      BY <2>2 DEF TaskReturns, At
    <3>. QED  BY <3>1, OverReturn
  <2>3. CASE CheckExists(w) \/ Render(w) \/ Commit(w)
    <3>1. exec[w].pc \notin InGate
      BY <2>3 DEF CheckExists, Render, Commit, At, InGate
    <3>. QED  BY <2>3, <3>1, OverRenders
  <2>4. CASE RemovePrerender(w)
    <3>1. exec[w].pc # "idle" /\ Goto(w, "destroy")
      BY <2>4 DEF RemovePrerender, At
    <3>2. exec'[w].pc \in InGate
      BY <3>1, GotoAt DEF Inv, InGate
    <3>. QED  BY <2>4, <3>2, OverRenders
  <2>. QED  BY <1>1, <2>1, <2>2, <2>3, <2>4, OverPosts, OverLoads, OverDestroy, OverCreate,
               OverCountBatch, OverFinishZoom, OverAddCurrent DEF WorkerStep
<1>2. ASSUME UNCHANGED <<exec, running, done>>, UNCHANGED jobVars,
             NEW new \in SUBSET (Tasks \ Known), queued' = queued \cup new
      PROVE  OneOver'
  <2>1. SameSets
    BY <1>2, StandSets DEF Inv
  <2>2. OverSame
    BY <1>2, <2>1 DEF OverSame, SameSets, Remaining, LastCalc, Zooms, Active, jobVars
  <2>. QED  BY <2>2, OverKept
<1>3. ASSUME NEW j \in Jobs, StartPrerender(j) PROVE OneOver'
  <2>. DEFINE new == {SetupTask(j)}
  <2>1. /\ UNCHANGED <<exec, running, done>> /\ UNCHANGED jobVars
        /\ new \in SUBSET (Tasks \ Known) /\ queued' = queued \cup new
    BY <1>3, TaskKinds DEF StartPrerender, Bag!Submit, Known, OfType
  <2>. HIDE DEF new
  <2>. QED  BY <1>2, <2>1
<1>4. ASSUME WriteBatch \/ GetStatus \/ UNCHANGED vars PROVE OneOver'
  <2>1. UNCHANGED bagVars /\ UNCHANGED exec /\ UNCHANGED jobVars
    BY <1>4 DEF WriteBatch, GetStatus, vars
  <2>2. {} \in SUBSET (Tasks \ Known) /\ queued' = queued \cup {}
        /\ UNCHANGED <<exec, running, done>>
    BY <2>1 DEF bagVars
  <2>. QED  BY <1>2, <2>1, <2>2
<1>. QED  BY <1>1, <1>3, <1>4 DEF Next

(* At rest everything that was to be posted has run. *)
LEMMA RestingJobs ==
  ASSUME Inv, PostInv, OneOver, queued = {}, running = {}
  PROVE  prerenders = <<>>
<1>1. Known = done /\ \A w \in Workers : exec[w].pc = "idle"
  BY Worker DEF Known, Inv
<1>2. ASSUME NEW j \in Jobs, Started(j) PROVE Over(j)
  <2>1. ASSUME NEW z \in Zooms(j) PROVE LastCalc(j, z) \in Returned
    <3>1. CalcTask(j, z, 1) \in Known
      BY <1>1, <1>2 DEF PostInv, ZoomsPosted, At
    <3>2. PICK b \in DOMAIN Batches[j][z] :
            /\ CalcTask(j, z, b) \in Known
            /\ CalcTask(j, z, b) \in Returned => b = Len(Batches[j][z])
      BY <3>1 DEF PostInv, BatchesPosted
    <3>3. CalcTask(j, z, b) \in Returned
      BY <1>1, <3>2, TaskKinds DEF Returned, Reached
    <3>. QED  BY <3>2, <3>3 DEF LastCalc
  <2>2. AllZooms(j)
    BY <2>1 DEF AllZooms, Remaining
  <2>3. ASSUME NEW t \in TilesOf(j) PROVE t \in rendered
    <3>1. PICK c \in Counted : c.job = j /\ t \in Elems(Batch(c))
      BY <2>2, AllCounted DEF CountedOf
    <3>2. PICK i \in DOMAIN Batch(c) : t = Batch(c)[i]
      BY <3>1 DEF Elems
    <3>3. RenderTask(j, t) \in Known
      BY <1>1, <3>1, <3>2 DEF PostInv, RendersPosted, At
    <3>4. RenderTask(j, t) \in Added /\ RenderTask(j, t).tile = t
      BY <1>1, <3>3, TaskKinds, TaskFields DEF Added, Reached
    <3>. QED  BY <3>4, TaskKinds DEF Inv, TaskInv
  <2>. QED  BY <2>2, <2>3 DEF Over, Complete
<1>3. \A b \in Elems(prerenders) : FALSE
  <2>. SUFFICES ASSUME NEW b \in Elems(prerenders) PROVE FALSE
    OBVIOUS
  <2>1. b \in Blocks /\ owner[b] \in Jobs /\ stats[owner[b]] = b
    BY Types DEF Inv, JobTyped, ListInv, OwnerInv, Elems
  <2>2. Alive(owner[b])
    BY <2>1, PrerenderAssumption DEF Alive, Started
  <2>3. Over(owner[b])
    BY <1>2, <2>1, <2>2 DEF Alive
  <2>. QED  BY <1>1, <2>1, <2>2, <2>3 DEF OneOver, InGate
<1>4. prerenders \in Seq(Blocks)
  BY Types DEF Inv, JobTyped
<1>5. ASSUME Len(prerenders) # 0 PROVE FALSE
  <2>1. 1 \in DOMAIN prerenders
    BY <1>4, <1>5
  <2>2. prerenders[1] \in Elems(prerenders)
    BY <2>1 DEF Elems
  <2>. QED  BY <2>2, <1>3
<1>. QED  BY <1>4, <1>5

(* When one worker has nothing left to do, no job is listed as ongoing: of *)
(* the renders of a job, the last one to be counted finds the gate open,   *)
(* however the calculations and the renders of its zooms were mixed.       *)
THEOREM RestsEmpty ==
  ASSUME OneWorker, JobsHaveZooms
  PROVE  Spec => []NoneOngoingAtRest
<1>1. Init => OneOver /\ PostInv
  <2>. SUFFICES ASSUME Init PROVE OneOver /\ PostInv
    OBVIOUS
  <2>1. /\ \A w \in Workers : exec[w] = Idle /\ exec[w].pc = "idle"
        /\ queued = {} /\ running = {} /\ done = {}
        /\ \A j \in Jobs : ~Started(j)
    BY DEF Init, Idle, Started, Bag!Init
  <2>2. Counted = {} /\ Known = {}
    BY <2>1 DEF Counted, Reached, Known, AfterCount
  <2>. QED  BY <2>1, <2>2 DEF OneOver, Active, Alive, PostInv, ZoomsPosted, RendersPosted,
               BatchesPosted
<1>2. Inv /\ OneAlive /\ OneOver /\ PostInv /\ [Next]_vars => OneOver' /\ PostInv'
  BY OneOverStep, PostStep
<1>3. Inv /\ OneOver /\ PostInv => NoneOngoingAtRest
  BY RestingJobs DEF NoneOngoingAtRest
<1>. QED  BY <1>1, <1>2, <1>3, OneInv, PTL DEF Spec
=============================================================================
