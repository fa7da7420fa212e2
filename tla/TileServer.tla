----------------------------- MODULE TileServer -----------------------------
(***************************************************************************)
(* The way of a tile request (serve_tile in tilesweep.c): memory cache of  *)
(* the HTTP thread, database, renderer.  The threads share the task pool   *)
(* and the write queue, which appear as what they promise (TaskBag.tla,    *)
(* TileStore.tla; TaskPool.tla and WriteQueue.tla are shown to implement   *)
(* them), and each has a cache of its own, reduced to what it holds.       *)
(*                                                                         *)
(* A thread serves one request at a time: serve_tile blocks in the pool    *)
(* until its render task has run.  The n-th request has task n and write   *)
(* [n |-> n, tile |-> its tile].                                           *)
(***************************************************************************)
EXTENDS TileRequest, FiniteSets

CONSTANTS
  Servers,           (* the HTTP threads *)
  Urls,              (* the URLs requested: [path, query] *)
  OldTiles,          (* the tiles a former process has stored *)
  MayFail,           (* the tiles whose rendering may fail *)
  RenderingEnabled,  (* shared->rendering_enabled *)
  NumWorkers,
  MinBatch,          (* insert_threshold of the write queue *)
  CacheSize,         (* how many images fit into a cache *)
  MaxRequests,       (* bound: requests received *)
  PosHash(_),        (* tile_hash, see TileHash *)
  CacheKey(_, _)     (* mem_cache_key of a width and a hash, see TileHash *)

Tiles == {parse_tile(u.path) : u \in Urls}

(* serve_tile refuses all other tiles. *)
Accepted(t) == tile_valid(t) /\ {t.w, t.h} \subseteq {256, 512}

ASSUME ServerAssumption ==
  /\ \A u \in Urls : Len(u.path) <= 5 /\ \A i \in DOMAIN u.path : u.path[i] \in Nat
  /\ OldTiles \subseteq {t \in Tiles : Accepted(t)} /\ MayFail \subseteq Tiles
  /\ RenderingEnabled \in BOOLEAN
  /\ NumWorkers \in Nat \ {0} /\ MinBatch \in Nat \ {0}
  /\ CacheSize \in Nat /\ MaxRequests \in Nat

VARIABLES
  serving,   (* per thread: the request it is serving or has served last *)
  cache,     (* per thread: key and image of the cached tiles *)
  received,  (* requests received so far *)
  waiting, running, done,           (* the tasks of the pool *)
  pending, writing, stored, force   (* the writes and the database *)

poolVars  == <<waiting, running, done>>
storeVars == <<pending, writing, stored, force>>
vars == <<serving, cache, received, poolVars, storeVars>>

Requests == 1..MaxRequests
Writes   == [n : 0..MaxRequests, tile : Tiles]

Pool  == INSTANCE TaskBag   WITH Tasks <- Requests, pending <- waiting
Store == INSTANCE TileStore WITH Items <- Writes

(* An image is named by the tile it shows. *)
None == [x |-> -1, y |-> -1, z |-> -1, w |-> 0, h |-> 0]
Nothing == [pc |-> "idle", n |-> 0, tile |-> None, forced |-> FALSE,
            wasStored |-> FALSE, read |-> "ok", ok |-> FALSE,
            status |-> 0, image |-> None]

(* wasStored and read remember for the properties whether the tile was in  *)
(* the database when the request came in, and whether the row could not be *)
(* read.                                                                   *)
Served == [pc : {"idle", "fetch", "submit", "render"}, n : 0..MaxRequests,
           tile : Tiles \cup {None}, forced : BOOLEAN, wasStored : BOOLEAN,
           read : {"ok", "failed"}, ok : BOOLEAN, status : {0, 200, 204, 400, 500},
           image : Tiles \cup {None}]

(* The keys of a tile that is not refused, in the database and the cache. *)
pos_hash == [t \in {u \in Tiles : Accepted(u)} |-> PosHash(t)]
mem_cache_key == [t \in DOMAIN pos_hash |-> CacheKey(t.w, pos_hash[t])]

Keys == {mem_cache_key[t] : t \in DOMAIN pos_hash}

TypeOK ==
  /\ serving \in [Servers -> Served]
  /\ cache \in [Servers -> SUBSET [key : Keys, image : Tiles]]
  /\ \A s \in Servers : Cardinality(cache[s]) <= CacheSize
  /\ \A s \in Servers : \A d, e \in cache[s] : d.key = e.key => d = e
  /\ received \in 0..MaxRequests
  /\ waiting \cup running \cup done \subseteq Requests
  /\ pending \cup writing \cup stored \subseteq Writes
  /\ force \in BOOLEAN

Init ==
  /\ serving = [s \in Servers |-> Nothing]
  /\ cache = [s \in Servers |-> {}]
  /\ received = 0
  /\ Pool!Init
  /\ pending = {} /\ writing = {} /\ force = FALSE
  /\ stored = {[n |-> 0, tile |-> t] : t \in OldTiles}

-----------------------------------------------------------------------------
InCache(s, t) == {e \in cache[s] : e.key = mem_cache_key[t]}
Rows(t)       == {r \in stored : /\ pos_hash[r.tile] = pos_hash[t]
                                /\ r.tile.w = t.w /\ r.tile.h = t.h}

Answer(r, code, img) == [r EXCEPT !.pc = "idle", !.status = code, !.image = img]

(* Without a row: the tile is rendered, unless that is ruled out. *)
NotFetched(r) == IF ~r.forced /\ RenderingEnabled THEN [r EXCEPT !.pc = "submit"]
                 ELSE Answer(r, 204, None)

(* serve_tile up to the lookup in the cache of the thread. *)
Receive(s, url) ==
  LET t == parse_tile(url.path)
      r == [Nothing EXCEPT !.n = received + 1, !.tile = t,
                           !.forced = ForceCache(url.query),
                           !.wasStored = Accepted(t) /\ Rows(t) # {}] IN
  /\ serving[s].pc = "idle" /\ received < MaxRequests
  /\ received' = received + 1
  /\ \/ /\ ~Accepted(t)
        /\ serving' = [serving EXCEPT ![s] = Answer(r, 400, None)]
     \/ /\ Accepted(t)
        /\ \E e \in InCache(s, t) :
             serving' = [serving EXCEPT ![s] = Answer(r, 200, e.image)]
     \/ /\ Accepted(t) /\ InCache(s, t) = {}
        /\ serving' = [serving EXCEPT ![s] = [r EXCEPT !.pc = "fetch"]]
  /\ UNCHANGED <<cache, poolVars, storeVars>>

(* Mutant: the memory limit of the cache is not looked at. *)
Fetch_IgnoresLimit(s) ==
  LET r == serving[s] IN
  /\ r.pc = "fetch"
  /\ \/ \E row \in Rows(r.tile) :
          /\ serving' = [serving EXCEPT ![s] = Answer(r, 200, row.tile)]
          /\ cache' = [cache EXCEPT ![s] = @ \cup
               {[key |-> mem_cache_key[r.tile], image |-> row.tile]}]
     \/ /\ Rows(r.tile) = {}
        /\ serving' = [serving EXCEPT ![s] = NotFetched(r)]
        /\ UNCHANGED cache
     \/ /\ Rows(r.tile) # {}
        /\ serving' = [serving EXCEPT ![s] = NotFetched([r EXCEPT !.read = "failed"])]
        /\ UNCHANGED cache
  /\ UNCHANGED <<received, poolVars, storeVars>>

(* Mutant: cached=true answers from the memory cache only. *)
Fetch_NotForced(s) ==
  LET r == serving[s] IN
  /\ r.pc = "fetch"
  /\ \/ \E row \in Rows(r.tile) :
          /\ ~r.forced
          /\ serving' = [serving EXCEPT ![s] = Answer(r, 200, row.tile)]
          /\ IF Cardinality(cache[s]) < CacheSize
             THEN cache' = [cache EXCEPT ![s] = @ \cup
                    {[key |-> mem_cache_key[r.tile], image |-> row.tile]}]
             ELSE UNCHANGED cache
     \/ /\ Rows(r.tile) = {} \/ r.forced
        /\ serving' = [serving EXCEPT ![s] = NotFetched(r)]
        /\ UNCHANGED cache
     \/ /\ Rows(r.tile) # {}
        /\ serving' = [serving EXCEPT ![s] = NotFetched([r EXCEPT !.read = "failed"])]
        /\ UNCHANGED cache
  /\ UNCHANGED <<received, poolVars, storeVars>>

(* image_db_fetch; what it finds is cached if there is room.  It returns 0 *)
(* for a tile that has no row, and for one that has if sqlite3_step        *)
(* answers SQLITE_BUSY or an error.                                        *)
Fetch(s) ==
  LET r == serving[s] IN
  /\ r.pc = "fetch"
  /\ \/ \E row \in Rows(r.tile) :
          /\ serving' = [serving EXCEPT ![s] = Answer(r, 200, row.tile)]
          /\ IF Cardinality(cache[s]) < CacheSize
             THEN cache' = [cache EXCEPT ![s] = @ \cup
                    {[key |-> mem_cache_key[r.tile], image |-> row.tile]}]
             ELSE UNCHANGED cache
     \/ /\ Rows(r.tile) = {}
        /\ serving' = [serving EXCEPT ![s] = NotFetched(r)]
        /\ UNCHANGED cache
     \/ /\ Rows(r.tile) # {}
        /\ serving' = [serving EXCEPT ![s] = NotFetched([r EXCEPT !.read = "failed"])]
        /\ UNCHANGED cache
  /\ UNCHANGED <<received, poolVars, storeVars>>

(* taskpool_wait, up to the wait. *)
Submit(s) ==
  /\ serving[s].pc = "submit"
  /\ Pool!Submit(serving[s].n)
  /\ serving' = [serving EXCEPT ![s].pc = "render"]
  /\ UNCHANGED <<cache, received, storeVars>>

(* A worker takes the task and runs render_tile_handler, which leaves the  *)
(* result in the task on the stack of the waiting thread.                  *)
StartRender(n) ==
  /\ Pool!Start(n)
  /\ UNCHANGED <<serving, cache, received, storeVars>>

EndRender(s) ==
  /\ serving[s].pc = "render"
  /\ Pool!Finish(serving[s].n)
  /\ \E ok \in {TRUE} \cup (IF serving[s].tile \in MayFail THEN {FALSE} ELSE {}) :
       serving' = [serving EXCEPT ![s].ok = ok]
  /\ UNCHANGED <<cache, received, storeVars>>

(* Mutant: a failed rendering is not answered. *)
Reply_OnlyOk(s) ==
  LET r == serving[s] IN
  /\ r.pc = "render" /\ r.n \in done /\ r.ok
  /\ Store!Put([n |-> r.n, tile |-> r.tile])
  /\ serving' = [serving EXCEPT ![s] = Answer(r, 200, r.tile)]
  /\ UNCHANGED <<cache, received, poolVars>>

(* Mutant: the thread does not wait for its task. *)
Reply_NotAwaited(s) ==
  LET r == serving[s] IN
  /\ r.pc = "render" /\ r.n \in waiting \cup running \cup done
  /\ IF r.ok THEN /\ Store!Put([n |-> r.n, tile |-> r.tile])
                  /\ serving' = [serving EXCEPT ![s] = Answer(r, 200, r.tile)]
             ELSE /\ serving' = [serving EXCEPT ![s] = Answer(r, 500, None)]
                  /\ UNCHANGED storeVars
  /\ UNCHANGED <<cache, received, poolVars>>

(* serve_tile after taskpool_wait: a copy goes to the write queue. *)
Reply(s) ==
  LET r == serving[s] IN
  /\ r.pc = "render" /\ r.n \in done
  /\ IF r.ok THEN /\ Store!Put([n |-> r.n, tile |-> r.tile])
                  /\ serving' = [serving EXCEPT ![s] = Answer(r, 200, r.tile)]
             ELSE /\ serving' = [serving EXCEPT ![s] = Answer(r, 500, None)]
                  /\ UNCHANGED storeVars
  /\ UNCHANGED <<cache, received, poolVars>>

(* run_loop updates the cache between two rounds of the event loop. *)
Expire(s) ==
  /\ serving[s].pc = "idle"
  /\ \E e \in cache[s] : cache' = [cache EXCEPT ![s] = @ \ {e}]
  /\ UNCHANGED <<serving, received, poolVars, storeVars>>

(* The write thread, and prerender jobs that ask for a commit. *)
WriteBatch ==
  /\ \/ \E batch \in SUBSET pending : Store!Take(batch)
     \/ Store!Store \/ Store!Drop \/ Store!RequestCommit
  /\ UNCHANGED <<serving, cache, received, poolVars>>

Work(s) == Fetch(s) \/ Submit(s) \/ Reply(s)

Next ==
  \/ \E s \in Servers, url \in Urls : Receive(s, url)
  \/ \E s \in Servers : Work(s) \/ EndRender(s) \/ Expire(s)
  \/ \E n \in Requests : StartRender(n)
  \/ WriteBatch

Spec == Init /\ [][Next]_vars

(* The HTTP threads and the workers keep running. *)
FairSpec ==
  /\ Spec
  /\ \A s \in Servers : WF_vars(Work(s)) /\ WF_vars(EndRender(s))
  /\ WF_vars(\E n \in Requests : StartRender(n))

-----------------------------------------------------------------------------
(* What the memory cache and the lookup in the database rest on: a         *)
(* position has a hash of its own, a width and a hash have a key of their  *)
(* own, and, since the key has the width only, a request is for as many    *)
(* rows as columns.                                                        *)
HashIsExact ==
  \A t, u \in Tiles : Accepted(t) /\ Accepted(u) /\ PosHash(t) = PosHash(u)
                        => t.x = u.x /\ t.y = u.y /\ t.z = u.z
KeyIsExact ==
  \A t, u \in Tiles : Accepted(t) /\ Accepted(u) /\ mem_cache_key[t] = mem_cache_key[u]
                        => t.w = u.w /\ PosHash(t) = PosHash(u)
SquareTiles == \A t \in Tiles : Accepted(t) => t.w = t.h

(* A request that is answered with an image gets the image of the tile it  *)
(* asked for, in its size: although positions and sizes share cache keys,  *)
(* the entries outlive many requests, and other threads write the rows.    *)
AnswerMatchesRequest ==
  \A s \in Servers : serving[s].status = 200 => serving[s].image = serving[s].tile

(* A tile that is in the database when the request comes in is served,     *)
(* without the renderer, and whatever cached=true and rendering=0 say, and *)
(* whatever the cache of the thread has dropped meanwhile, unless the      *)
(* database cannot be read.                                                *)
StoredIsServed ==
  \A s \in Servers : serving[s].wasStored /\ serving[s].read = "ok" =>
    /\ serving[s].pc \in {"idle", "fetch"}
    /\ serving[s].pc = "idle" => serving[s].status = 200

(* A render task writes its result to the stack of the thread that handed  *)
(* it in: from the post to the end of the handler that thread is waiting   *)
(* in taskpool_wait, for this task and no other.                           *)
ResultAwaited ==
  \A n \in waiting \cup running :
    \E s \in Servers : serving[s].pc = "render" /\ serving[s].n = n

(* Every request is answered, however many threads want the renderers. *)
RequestsAnswered ==
  \A s \in Servers : serving[s].pc # "idle" ~> serving[s].pc = "idle"
=============================================================================
