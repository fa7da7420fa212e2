-------------------------- MODULE TileServerProofs --------------------------
(***************************************************************************)
(* Theorems of TileServer for every number of threads, every set of URLs   *)
(* and every schedule: types, that an answer shows the tile that was asked *)
(* for, and that a stored tile is served.                                  *)
(***************************************************************************)
EXTENDS TileServer, FiniteSetTheorems, TLAPS

AcceptedTiles == {t \in Tiles : Accepted(t)}

(* What has been written, is in a cache, or is asked for is a tile that    *)
(* serve_tile accepts; a cached image has its own key.                     *)
WritesAccepted ==
  \A r \in pending \cup writing \cup stored : r.tile \in AcceptedTiles
CachesKeyed ==
  \A s \in Servers : \A e \in cache[s] :
    e.image \in AcceptedTiles /\ e.key = mem_cache_key[e.image]
CachesFinite == \A s \in Servers : IsFiniteSet(cache[s])

(* A thread that has come to the database has not found its tile in its    *)
(* cache, which nobody else fills.                                         *)
ServingAccepted ==
  \A s \in Servers :
    /\ serving[s].pc # "idle" =>
         serving[s].tile \in AcceptedTiles /\ serving[s].n \in Requests
    /\ serving[s].pc = "fetch" => InCache(s, serving[s].tile) = {}

TypeInv ==
  TypeOK /\ WritesAccepted /\ CachesKeyed /\ CachesFinite /\ ServingAccepted

(* A tile that was in the database is still there when it is looked up.    *)
StoredInv ==
  \A s \in Servers : serving[s].wasStored /\ serving[s].read = "ok" =>
    /\ serving[s].pc \in {"idle", "fetch"}
    /\ serving[s].pc = "fetch" => Rows(serving[s].tile) # {}
    /\ serving[s].pc = "idle" => serving[s].status = 200

-----------------------------------------------------------------------------
(* Tiles are records of their five numbers. *)
LEMMA TileFields ==
  ASSUME NEW t \in Tiles, NEW u \in Tiles,
         t.x = u.x, t.y = u.y, t.z = u.z, t.w = u.w, t.h = u.h
  PROVE  t = u
<1>1. \A path : LET p == parse_tile(path) IN
        p = [x |-> p.x, y |-> p.y, z |-> p.z, w |-> p.w, h |-> p.h]
  BY DEF parse_tile
<1>2. \A v \in Tiles : v = [x |-> v.x, y |-> v.y, z |-> v.z, w |-> v.w, h |-> v.h]
  BY <1>1 DEF Tiles
<1>. QED  BY <1>2

(* A key of the cache is of one tile, if keys are exact and tiles square.  *)
KeysAreExact == HashIsExact /\ KeyIsExact /\ SquareTiles

LEMMA KeyNamesTile ==
  ASSUME KeysAreExact, NEW t \in AcceptedTiles, NEW u \in AcceptedTiles,
         mem_cache_key[t] = mem_cache_key[u]
  PROVE  t = u
<1>1. t.w = u.w /\ PosHash(t) = PosHash(u)
  BY DEF KeysAreExact, KeyIsExact, AcceptedTiles
<1>2. t.x = u.x /\ t.y = u.y /\ t.z = u.z /\ t.w = t.h /\ u.w = u.h
  BY <1>1 DEF KeysAreExact, HashIsExact, SquareTiles, AcceptedTiles
<1>. QED  BY <1>1, <1>2, TileFields DEF AcceptedTiles

(* And a row of the database, whatever the size of the tile. *)
LEMMA RowNamesTile ==
  ASSUME HashIsExact, WritesAccepted, NEW t \in AcceptedTiles, NEW r \in Rows(t)
  PROVE  r.tile = t
<1>1. r.tile \in AcceptedTiles /\ r.tile.w = t.w /\ r.tile.h = t.h
  BY DEF Rows, WritesAccepted
<1>2. PosHash(r.tile) = PosHash(t)
  BY <1>1 DEF Rows, pos_hash, AcceptedTiles
<1>3. r.tile.x = t.x /\ r.tile.y = t.y /\ r.tile.z = t.z
  BY <1>1, <1>2 DEF HashIsExact, AcceptedTiles
<1>. QED  BY <1>1, <1>3, TileFields DEF AcceptedTiles

(* What the thread keeps of a request it has answered. *)
Answered(a, r, code, img) ==
  /\ a \in Served /\ a.pc = "idle" /\ a.status = code /\ a.image = img
  /\ a.tile = r.tile /\ a.wasStored = r.wasStored /\ a.read = r.read
  /\ a.n = r.n

LEMMA AnswerFields ==
  ASSUME NEW r \in Served, NEW code \in {200, 204, 400, 500}, NEW img \in Tiles \cup {None}
  PROVE  Answered(Answer(r, code, img), r, code, img)
<1>. DEFINE a == Answer(r, code, img)
<1>1. a = [pc |-> "idle", n |-> r.n, tile |-> r.tile, forced |-> r.forced,
           wasStored |-> r.wasStored, read |-> r.read,
              ok |-> r.ok, status |-> code, image |-> img]
  <2>. DEFINE r1 == [r EXCEPT !.pc = "idle"]
              r2 == [r1 EXCEPT !.status = code]
  <2>1. r1 = [pc |-> "idle", n |-> r.n, tile |-> r.tile, forced |-> r.forced,
              wasStored |-> r.wasStored, read |-> r.read,
              ok |-> r.ok, status |-> r.status, image |-> r.image]
    BY DEF Served
  <2>. HIDE DEF r1
  <2>2. r2 = [pc |-> "idle", n |-> r.n, tile |-> r.tile, forced |-> r.forced,
              wasStored |-> r.wasStored, read |-> r.read,
              ok |-> r.ok, status |-> code, image |-> r.image]
    BY <2>1
  <2>3. a = [r2 EXCEPT !.image = img]
    BY DEF Answer, r1
  <2>. HIDE DEF r2, a
  <2>. QED  BY <2>2, <2>3
<1>2. /\ r.n \in 0..MaxRequests /\ r.tile \in Tiles \cup {None} /\ r.forced \in BOOLEAN
      /\ r.wasStored \in BOOLEAN /\ r.read \in {"ok", "failed"} /\ r.ok \in BOOLEAN
  BY DEF Served
<1>. HIDE DEF a
<1>3. a \in Served
  BY <1>1, <1>2 DEF Served
<1>. QED  BY <1>1, <1>3 DEF a, Answered

-----------------------------------------------------------------------------
LEMMA TypeInit == Init => TypeInv
<1>. SUFFICES ASSUME Init PROVE TypeInv
  OBVIOUS
<1>1. Nothing \in Served /\ Nothing.pc = "idle"
  BY ServerAssumption DEF Nothing, Served
<1>2. \A s \in Servers : serving[s] = Nothing /\ cache[s] = {}
  BY DEF Init
<1>3. IsFiniteSet({}) /\ Cardinality({}) = 0
  BY FS_EmptySet
<1>4. stored \subseteq Writes /\ \A r \in stored : r.tile \in AcceptedTiles
  BY ServerAssumption DEF Init, Writes, AcceptedTiles
<1>5. TypeOK
  <2>1. CacheSize \in Nat /\ MaxRequests \in Nat
    BY ServerAssumption
  <2>2. /\ serving \in [Servers -> Served]
        /\ cache \in [Servers -> SUBSET [key : Keys, image : Tiles]]
    BY <1>1, <1>2 DEF Init
  <2>3. \A s \in Servers : Cardinality(cache[s]) <= CacheSize
    BY <1>2, <1>3, <2>1
  <2>4. \A s \in Servers : \A d, e \in cache[s] : d.key = e.key => d = e
    BY <1>2
  <2>5. received \in 0..MaxRequests /\ force \in BOOLEAN
    <3>1. received = 0 /\ force = FALSE
      BY DEF Init
    <3>2. received \in 0..MaxRequests
      BY <2>1, <3>1
    <3>3. force \in BOOLEAN
      BY <3>1, Zenon
    <3>. QED  BY <3>2, <3>3
  <2>6. waiting \cup running \cup done = {} /\ pending \cup writing \cup stored = stored
    BY DEF Init, Pool!Init
  <2>. QED  BY <1>4, <2>2, <2>3, <2>4, <2>5, <2>6 DEF TypeOK
<1>6. WritesAccepted /\ CachesKeyed /\ CachesFinite /\ ServingAccepted
  BY <1>1, <1>2, <1>3, <1>4
     DEF Init, WritesAccepted, CachesKeyed, CachesFinite, ServingAccepted
<1>. QED  BY <1>5, <1>6 DEF TypeInv

(* A request that has come in. *)
Incoming(url) ==
  LET t == parse_tile(url.path) IN
  [Nothing EXCEPT !.n = received + 1, !.tile = t, !.forced = ForceCache(url.query),
                  !.wasStored = Accepted(t) /\ Rows(t) # {}]

LEMMA IncomingFields ==
  ASSUME NEW url \in Urls, TypeOK, received < MaxRequests,
         NEW t, t = parse_tile(url.path)
  PROVE  LET r == Incoming(url) IN
         /\ t \in Tiles /\ r \in Served /\ r.tile = t /\ r.pc = "idle" /\ r.status = 0
         /\ r.wasStored = (Accepted(t) /\ Rows(t) # {}) /\ r.n \in Requests
         /\ [r EXCEPT !.pc = "fetch"] \in Served
<1>. DEFINE r == Incoming(url)
<1>1. t \in Tiles
  BY DEF Tiles
<1>2. received + 1 \in 0..MaxRequests /\ received + 1 \in Requests
  BY ServerAssumption DEF TypeOK, Requests
<1>3. ForceCache(url.query) \in BOOLEAN /\ (Accepted(t) /\ Rows(t) # {}) \in BOOLEAN
  BY DEF ForceCache
<1>. DEFINE known == Accepted(t) /\ Rows(t) # {}
            forced == ForceCache(url.query)
            no == FALSE
            n == received + 1
            record(pc, m, u, f, k) ==
              [pc |-> pc, n |-> m, tile |-> u, forced |-> f, wasStored |-> k,
               read |-> "ok", ok |-> no, status |-> 0, image |-> None]
            rec(pc) == record(pc, n, t, forced, known)
<1>4. r = rec("idle")
  <2>. DEFINE r1 == [Nothing EXCEPT !.n = n]
              r2 == [r1 EXCEPT !.tile = t]
              r3 == [r2 EXCEPT !.forced = forced]
  <2>1. Nothing = record("idle", 0, None, no, no)
    BY DEF Nothing
  <2>2. r = [r3 EXCEPT !.wasStored = known]
    BY DEF Incoming
  <2>. HIDE DEF known, forced, no, n, r
  <2>3. r1 = record("idle", n, None, no, no)
    BY <2>1
  <2>. HIDE DEF r1
  <2>4. r2 = record("idle", n, t, no, no)
    BY <2>3
  <2>. HIDE DEF r2
  <2>5. r3 = record("idle", n, t, forced, no)
    BY <2>4
  <2>. HIDE DEF r3
  <2>. QED  BY <2>2, <2>5
<1>. HIDE DEF known, forced, no, n, r
<1>5. known \in BOOLEAN /\ forced \in BOOLEAN /\ no \in BOOLEAN
  BY <1>3, Zenon DEF known, forced, no
<1>6. n \in 0..MaxRequests /\ n \in Requests
  BY <1>2 DEF n
<1>7. \A pc \in {"idle", "fetch"} : rec(pc) \in Served
  BY <1>1, <1>5, <1>6 DEF Served
<1>8. [r EXCEPT !.pc = "fetch"] = rec("fetch")
  BY <1>4
<1>9. r.wasStored = known /\ r.tile = t /\ r.pc = "idle" /\ r.status = 0 /\ r.n = n
  BY <1>4
<1>. HIDE DEF rec
<1>10. r \in Served /\ [r EXCEPT !.pc = "fetch"] \in Served
  BY <1>4, <1>7, <1>8
<1>11. r.wasStored = (Accepted(t) /\ Rows(t) # {})
  BY <1>9, Zenon DEF known
<1>. QED  BY <1>1, <1>6, <1>9, <1>10, <1>11 DEF r

LEMMA ReceiveStep ==
  ASSUME TypeInv, NEW s \in Servers, NEW url \in Urls, Receive(s, url)
  PROVE  /\ TypeInv'
         /\ StoredInv => StoredInv'
         /\ KeysAreExact /\ AnswerMatchesRequest => AnswerMatchesRequest'
<1>. DEFINE t == parse_tile(url.path)
            r == Incoming(url)
<1>1. /\ serving[s].pc = "idle" /\ received < MaxRequests /\ received' = received + 1
      /\ UNCHANGED <<cache, poolVars, storeVars>> /\ serving \in [Servers -> Served]
      /\ TypeOK
  BY DEF Receive, TypeInv, TypeOK
<1>2. /\ t \in Tiles /\ r \in Served /\ r.tile = t /\ r.pc = "idle" /\ r.status = 0
      /\ r.wasStored = (Accepted(t) /\ Rows(t) # {}) /\ r.n \in Requests
      /\ [r EXCEPT !.pc = "fetch"] \in Served
  BY <1>1, IncomingFields
<1>3. \/ /\ ~Accepted(t)
         /\ serving' = [serving EXCEPT ![s] = Answer(r, 400, None)]
      \/ /\ Accepted(t)
         /\ \E e \in InCache(s, t) : serving' = [serving EXCEPT ![s] = Answer(r, 200, e.image)]
      \/ /\ Accepted(t) /\ InCache(s, t) = {}
         /\ serving' = [serving EXCEPT ![s] = [r EXCEPT !.pc = "fetch"]]
  BY DEF Receive, Incoming
<1>. HIDE DEF t, r
<1>4. /\ serving'[s] \in Served /\ serving' = [serving EXCEPT ![s] = serving'[s]]
      /\ serving'[s].pc \in {"idle", "fetch"} /\ serving'[s].tile = t
      /\ serving'[s].wasStored = r.wasStored /\ serving'[s].n = r.n
      /\ serving'[s].pc = "fetch" => Accepted(t) /\ InCache(s, t) = {} /\ serving'[s].status # 200
      /\ serving'[s].pc = "idle" => (Accepted(t) <=> serving'[s].status = 200)
      /\ serving'[s].status = 200 => \E e \in InCache(s, t) : serving'[s].image = e.image
  <2>1. CASE ~Accepted(t) /\ serving' = [serving EXCEPT ![s] = Answer(r, 400, None)]
    <3>3. Answered(Answer(r, 400, None), r, 400, None)
      BY <1>1, <1>2, <2>1, AnswerFields
    <3>4. /\ serving'[s] = Answer(r, 400, None)
          /\ serving' = [serving EXCEPT ![s] = serving'[s]]
      BY <1>1, <1>2, <2>1
    <3>. QED  BY <1>1, <1>2, <2>1, <3>3, <3>4 DEF Answered
  <2>2. ASSUME NEW e \in InCache(s, t), Accepted(t),
               serving' = [serving EXCEPT ![s] = Answer(r, 200, e.image)]
        PROVE  <1>4
    <3>1. e.image \in Tiles
      BY <2>2 DEF InCache, TypeInv, CachesKeyed, AcceptedTiles
    <3>3. Answered(Answer(r, 200, e.image), r, 200, e.image)
      BY <1>1, <1>2, <2>2, <3>1, AnswerFields
    <3>4. /\ serving'[s] = Answer(r, 200, e.image)
          /\ serving' = [serving EXCEPT ![s] = serving'[s]]
      BY <1>1, <1>2, <2>2
    <3>. QED  BY <1>1, <1>2, <2>2, <3>3, <3>4 DEF Answered
  <2>3. CASE Accepted(t) /\ InCache(s, t) = {} /\
             serving' = [serving EXCEPT ![s] = [r EXCEPT !.pc = "fetch"]]
    <3>1. r.status # 200
      BY <1>2
    <3>2. serving'[s] = [r EXCEPT !.pc = "fetch"]
      BY <1>1, <2>3
    <3>3. LET f == [r EXCEPT !.pc = "fetch"] IN
          /\ f.pc = "fetch" /\ f.tile = r.tile /\ f.n = r.n /\ f.status = r.status
          /\ f.wasStored = r.wasStored
      BY <1>2 DEF Served
    <3>. QED  BY <1>1, <1>2, <2>3, <3>1, <3>2, <3>3
  <2>. QED  BY <1>3, <2>1, <2>2, <2>3
<1>5. TypeOK'
  <2>1. received' \in 0..MaxRequests
    BY <1>1, ServerAssumption DEF TypeOK
  <2>2. serving' \in [Servers -> Served]
    BY <1>1, <1>4
  <2>. QED  BY <1>1, <2>1, <2>2 DEF TypeOK, poolVars, storeVars
<1>6. WritesAccepted' /\ CachesKeyed' /\ CachesFinite'
  BY <1>1 DEF TypeInv, WritesAccepted, CachesKeyed, CachesFinite, storeVars
<1>7. ServingAccepted'
  BY <1>1, <1>2, <1>4 DEF TypeInv, ServingAccepted, InCache, AcceptedTiles
<1>8. StoredInv => StoredInv'
  <2>1. \A u : Rows(u)' = Rows(u)
    BY <1>1 DEF Rows, storeVars
  <2>2. serving'[s].wasStored =>
          /\ serving'[s].pc = "fetch" => Rows(serving'[s].tile) # {}
          /\ serving'[s].pc = "idle" => serving'[s].status = 200
    BY <1>2, <1>4
  <2>3. \A z \in Servers \ {s} : serving'[z] = serving[z]
    BY <1>1, <1>4
  <2>. QED  BY <1>4, <2>1, <2>2, <2>3 DEF StoredInv
<1>9. ASSUME KeysAreExact, AnswerMatchesRequest PROVE AnswerMatchesRequest'
  <2>1. ASSUME serving'[s].status = 200 PROVE serving'[s].image = t
    <3>1. PICK e \in InCache(s, t) : serving'[s].image = e.image
      BY <1>4, <2>1
    <3>2. e.image \in AcceptedTiles /\ mem_cache_key[e.image] = mem_cache_key[t]
      BY DEF InCache, TypeInv, CachesKeyed
    <3>3. t \in AcceptedTiles
      BY <1>2, <1>4, <2>1 DEF AcceptedTiles
    <3>. QED  BY <1>9, <3>1, <3>2, <3>3, KeyNamesTile
  <2>. QED  BY <1>1, <1>4, <1>9, <2>1 DEF AnswerMatchesRequest
<1>. QED  BY <1>5, <1>6, <1>7, <1>8, <1>9 DEF TypeInv

-----------------------------------------------------------------------------
(* The lookup in the database: an image that is found may be cached. *)
LEMMA FetchStep ==
  ASSUME TypeInv, NEW s \in Servers, Fetch(s)
  PROVE  /\ TypeInv'
         /\ StoredInv => StoredInv'
         /\ KeysAreExact /\ AnswerMatchesRequest => AnswerMatchesRequest'
<1>. DEFINE r == serving[s]
            unread == [r EXCEPT !.read = "failed"]
            entry(row) == [key |-> mem_cache_key[r.tile], image |-> row.tile]
<1>1. /\ r.pc = "fetch" /\ r \in Served /\ r.tile \in AcceptedTiles /\ r.tile \in Tiles
      /\ r.n \in Requests
      /\ InCache(s, r.tile) = {} /\ serving \in [Servers -> Served]
      /\ cache \in [Servers -> SUBSET [key : Keys, image : Tiles]]
      /\ UNCHANGED <<received, poolVars, storeVars>>
  BY DEF Fetch, TypeInv, TypeOK, ServingAccepted, AcceptedTiles
<1>2. \/ \E row \in Rows(r.tile) :
           /\ serving' = [serving EXCEPT ![s] = Answer(r, 200, row.tile)]
           /\ \/ UNCHANGED cache
              \/ /\ Cardinality(cache[s]) < CacheSize
                 /\ cache' = [cache EXCEPT ![s] = cache[s] \cup {entry(row)}]
      \/ /\ UNCHANGED cache
         /\ \/ /\ Rows(r.tile) = {}
               /\ serving' = [serving EXCEPT ![s] = NotFetched(r)]
            \/ serving' = [serving EXCEPT ![s] = NotFetched(unread)]
  BY DEF Fetch
<1>3. /\ \A u : Rows(u)' = Rows(u)
      /\ WritesAccepted'
  BY <1>1 DEF Rows, storeVars, TypeInv, WritesAccepted
<1>4. ASSUME NEW row \in Rows(r.tile)
      PROVE  row.tile \in AcceptedTiles /\ row.tile \in Tiles
             /\ mem_cache_key[row.tile] = mem_cache_key[r.tile]
  <2>1. row.tile \in AcceptedTiles /\ row.tile \in Tiles
    BY DEF Rows, TypeInv, WritesAccepted, AcceptedTiles
  <2>2. row.tile \in DOMAIN pos_hash /\ r.tile \in DOMAIN pos_hash
    BY <1>1, <2>1 DEF pos_hash, AcceptedTiles
  <2>. QED  BY <2>1, <2>2 DEF Rows, mem_cache_key
<1>12. /\ unread \in Served /\ unread.pc = r.pc /\ unread.tile = r.tile /\ unread.n = r.n
       /\ unread.wasStored = r.wasStored /\ unread.read = "failed"
       /\ unread.status = r.status /\ unread.image = r.image
  BY <1>1 DEF Served
<1>. HIDE DEF r, unread
<1>5. /\ serving'[s] \in Served /\ serving' = [serving EXCEPT ![s] = serving'[s]]
      /\ serving'[s].pc \in {"idle", "submit"} /\ serving'[s].tile = r.tile
      /\ serving'[s].wasStored = r.wasStored /\ serving'[s].n = r.n
      /\ r.read = "failed" => serving'[s].read = "failed"
      /\ Rows(r.tile) # {} =>
           \/ serving'[s].read = "failed"
           \/ serving'[s].pc = "idle" /\ serving'[s].status = 200
      /\ serving'[s].status = 200 =>
           \/ r.status = 200 /\ serving'[s].image = r.image
           \/ \E row \in Rows(r.tile) : serving'[s].image = row.tile
  <2>1. ASSUME NEW row \in Rows(r.tile),
               serving' = [serving EXCEPT ![s] = Answer(r, 200, row.tile)]
        PROVE  <1>5
    <3>1. row.tile \in Tiles
      BY <1>4
    <3>3. Answered(Answer(r, 200, row.tile), r, 200, row.tile)
      BY <1>1, <2>1, <3>1, AnswerFields
    <3>4. /\ serving'[s] = Answer(r, 200, row.tile)
          /\ serving' = [serving EXCEPT ![s] = serving'[s]]
      BY <1>1, <2>1
    <3>. QED  BY <1>1, <2>1, <3>3, <3>4 DEF Answered
  <2>2. ASSUME NEW q \in Served, q.tile = r.tile, q.n = r.n, q.wasStored = r.wasStored,
               q.status = r.status, q.image = r.image, r.read = "failed" => q.read = "failed",
               q.read = "failed" \/ Rows(r.tile) = {},
               serving' = [serving EXCEPT ![s] = NotFetched(q)]
        PROVE  <1>5
    <3>1. /\ serving'[s] = NotFetched(q)
          /\ serving' = [serving EXCEPT ![s] = serving'[s]]
      BY <1>1, <2>2
    <3>2. CASE NotFetched(q) = [q EXCEPT !.pc = "submit"]
      <4>. DEFINE f == [q EXCEPT !.pc = "submit"]
      <4>1. /\ f \in Served /\ f.pc = "submit" /\ f.tile = q.tile /\ f.n = q.n
            /\ f.wasStored = q.wasStored /\ f.read = q.read
            /\ f.status = q.status /\ f.image = q.image
        BY <2>2 DEF Served
      <4>2. serving'[s] = f
        BY <3>1, <3>2
      <4>. HIDE DEF f
      <4>. QED  BY <2>2, <3>1, <4>1, <4>2
    <3>3. CASE NotFetched(q) = Answer(q, 204, None)
      <4>1. Answered(Answer(q, 204, None), q, 204, None)
        BY <2>2, AnswerFields
      <4>. QED  BY <2>2, <3>1, <3>3, <4>1 DEF Answered
    <3>. QED  BY <3>2, <3>3 DEF NotFetched
  <2>3. CASE Rows(r.tile) = {} /\ serving' = [serving EXCEPT ![s] = NotFetched(r)]
    BY <1>1, <2>2, <2>3
  <2>4. CASE serving' = [serving EXCEPT ![s] = NotFetched(unread)]
    BY <1>12, <2>2, <2>4
  <2>. QED  BY <1>2, <2>1, <2>3, <2>4
<1>6. serving' \in [Servers -> Served]
  BY <1>1, <1>5
<1>7. ServingAccepted'
  <2>1. \A z \in Servers \ {s} : cache'[z] = cache[z] /\ serving'[z] = serving[z]
    BY <1>1, <1>2, <1>5
  <2>2. \A z \in Servers \ {s} : InCache(z, serving[z].tile)' = InCache(z, serving[z].tile)
    BY <2>1 DEF InCache
  <2>. QED  BY <1>1, <1>5, <2>1, <2>2 DEF TypeInv, ServingAccepted
<1>8. ASSUME StoredInv PROVE StoredInv'
  <2>1. serving'[s].wasStored /\ serving'[s].read = "ok" =>
          serving'[s].pc = "idle" /\ serving'[s].status = 200
    <3>1. serving'[s].read = "ok" => r.read = "ok"
      BY <1>1, <1>5 DEF Served
    <3>. QED  BY <1>1, <1>5, <1>8, <3>1 DEF StoredInv, r
  <2>2. \A z \in Servers \ {s} : serving'[z] = serving[z]
    BY <1>1, <1>5
  <2>. QED  BY <1>3, <1>8, <2>1, <2>2 DEF StoredInv
<1>9. ASSUME KeysAreExact, AnswerMatchesRequest PROVE AnswerMatchesRequest'
  <2>1. serving'[s].status = 200 => serving'[s].image = r.tile
    BY <1>1, <1>5, <1>9, RowNamesTile DEF KeysAreExact, AnswerMatchesRequest, TypeInv, r
  <2>. QED  BY <1>1, <1>5, <1>9, <2>1 DEF AnswerMatchesRequest
<1>10. CASE UNCHANGED cache
  <2>1. TypeOK' /\ CachesKeyed' /\ CachesFinite'
    BY <1>1, <1>6, <1>10 DEF TypeInv, TypeOK, CachesKeyed, CachesFinite, poolVars, storeVars
  <2>. QED  BY <1>3, <1>7, <1>8, <1>9, <2>1 DEF TypeInv
<1>11. ASSUME NEW row \in Rows(r.tile), Cardinality(cache[s]) < CacheSize,
              cache' = [cache EXCEPT ![s] = cache[s] \cup {entry(row)}]
       PROVE  TypeOK' /\ CachesKeyed' /\ CachesFinite'
  <2>. DEFINE e == entry(row)
  <2>1. /\ e \in [key : Keys, image : Tiles] /\ e.image \in AcceptedTiles
        /\ e.key = mem_cache_key[e.image] /\ e.key = mem_cache_key[r.tile]
    <3>1. mem_cache_key[r.tile] \in Keys
      BY <1>1 DEF Keys, pos_hash, AcceptedTiles
    <3>. QED  BY <1>4, <3>1
  <2>. HIDE DEF entry
  <2>2. \A z \in Servers : cache'[z] = IF z = s THEN cache[s] \cup {e} ELSE cache[z]
    BY <1>1, <1>11
  <2>3. \A d \in cache[s] : d.key # e.key
    BY <1>1, <2>1 DEF InCache
  <2>4. /\ IsFiniteSet(cache[s] \cup {e})
        /\ Cardinality(cache[s] \cup {e}) <= CacheSize
    <3>1. IsFiniteSet(cache[s]) /\ Cardinality(cache[s]) \in Nat /\ CacheSize \in Nat
      BY FS_CardinalityType, ServerAssumption DEF TypeInv, CachesFinite
    <3>2. /\ IsFiniteSet(cache[s] \cup {e})
          /\ Cardinality(cache[s] \cup {e}) = Cardinality(cache[s]) + 1
      BY <2>3, <3>1, FS_AddElement
    <3>. QED  BY <1>11, <3>1, <3>2
  <2>5. /\ cache' \in [Servers -> SUBSET [key : Keys, image : Tiles]]
        /\ \A z \in Servers : Cardinality(cache'[z]) <= CacheSize
        /\ \A z \in Servers : \A c, d \in cache'[z] : c.key = d.key => c = d
    <3>1. \A z \in Servers : \A c, d \in cache[z] : c.key = d.key => c = d
      BY DEF TypeInv, TypeOK
    <3>2. \A z \in Servers : Cardinality(cache[z]) <= CacheSize
      BY DEF TypeInv, TypeOK
    <3>3. cache' \in [Servers -> SUBSET [key : Keys, image : Tiles]]
      BY <1>1, <1>11, <2>1
    <3>4. \A c, d \in cache[s] \cup {e} : c.key = d.key => c = d
      BY <2>3, <3>1
    <3>. QED  BY <2>2, <2>4, <3>1, <3>2, <3>3, <3>4
  <2>6. TypeOK'
    BY <1>1, <1>6, <2>5 DEF TypeInv, TypeOK, poolVars, storeVars
  <2>7. CachesKeyed' /\ CachesFinite'
    BY <2>1, <2>2, <2>4 DEF TypeInv, CachesKeyed, CachesFinite
  <2>. QED  BY <2>6, <2>7
<1>. QED  BY <1>2, <1>3, <1>7, <1>8, <1>9, <1>10, <1>11 DEF TypeInv

-----------------------------------------------------------------------------
(* The render task of a request, from the post to the answer. *)
LEMMA RenderStep ==
  ASSUME TypeInv, NEW s \in Servers, Submit(s) \/ EndRender(s) \/ Reply(s)
  PROVE  /\ TypeInv'
         /\ StoredInv => StoredInv'
         /\ AnswerMatchesRequest => AnswerMatchesRequest'
<1>. DEFINE r == serving[s]
            write == [n |-> r.n, tile |-> r.tile]
<1>1. /\ r.pc \in {"submit", "render"} /\ r \in Served /\ r.tile \in AcceptedTiles
      /\ r.tile \in Tiles /\ r.n \in Requests /\ serving \in [Servers -> Served]
      /\ UNCHANGED <<cache, received>> /\ TypeOK
  BY DEF Submit, EndRender, Reply, TypeInv, TypeOK, ServingAccepted, AcceptedTiles
<1>2. waiting' \cup running' \cup done' \subseteq Requests
  BY <1>1 DEF Submit, EndRender, Reply, Pool!Submit, Pool!Finish, TypeOK, poolVars
<1>3. /\ pending' \subseteq pending \cup {write} /\ UNCHANGED <<writing, stored, force>>
      /\ write \in Writes /\ write.tile \in AcceptedTiles
  <2>1. write \in Writes
    BY <1>1 DEF Writes, Served
  <2>. QED  BY <1>1, <2>1 DEF Submit, EndRender, Reply, Store!Put, storeVars
<1>. HIDE DEF r, write
<1>4. /\ serving'[s] \in Served /\ serving' = [serving EXCEPT ![s] = serving'[s]]
      /\ serving'[s].pc \in {"render", "idle"} /\ serving'[s].tile = r.tile
      /\ serving'[s].wasStored = r.wasStored /\ serving'[s].read = r.read
      /\ serving'[s].n = r.n
      /\ serving'[s].status = 200 =>
           \/ serving'[s].image = r.tile
           \/ r.status = 200 /\ serving'[s].image = r.image
  <2>1. CASE Submit(s)
    <3>1. /\ serving' = [serving EXCEPT ![s] = [r EXCEPT !.pc = "render"]]
          /\ serving'[s] = [r EXCEPT !.pc = "render"]
      BY <1>1, <2>1 DEF Submit, r
    <3>. QED  BY <1>1, <3>1 DEF Served
  <2>4. CASE EndRender(s)
    <3>1. PICK ok \in BOOLEAN : serving' = [serving EXCEPT ![s] = [r EXCEPT !.ok = ok]]
      BY <2>4 DEF EndRender, r
    <3>2. serving'[s] = [r EXCEPT !.ok = ok] /\ r.pc = "render"
      BY <1>1, <2>4, <3>1 DEF EndRender, r
    <3>. QED  BY <1>1, <3>1, <3>2 DEF Served
  <2>2. ASSUME NEW code \in {200, 500}, NEW img \in Tiles \cup {None},
               code = 200 => img = r.tile,
               serving' = [serving EXCEPT ![s] = Answer(r, code, img)]
        PROVE  <1>4
    <3>3. Answered(Answer(r, code, img), r, code, img)
      BY <1>1, <2>2, AnswerFields
    <3>4. /\ serving'[s] = Answer(r, code, img)
          /\ serving' = [serving EXCEPT ![s] = serving'[s]]
      BY <1>1, <2>2
    <3>. QED  BY <1>1, <2>2, <3>3, <3>4 DEF Answered
  <2>3. CASE Reply(s)
    <3>1. \/ serving' = [serving EXCEPT ![s] = Answer(r, 200, r.tile)]
          \/ serving' = [serving EXCEPT ![s] = Answer(r, 500, None)]
      BY <2>3 DEF Reply, r
    <3>. QED  BY <1>1, <2>2, <3>1
  <2>. QED  BY <2>1, <2>3, <2>4
<1>5. TypeOK'
  <2>1. serving' \in [Servers -> Served]
    BY <1>1, <1>4
  <2>2. pending' \cup writing' \cup stored' \subseteq Writes /\ force' \in BOOLEAN
    BY <1>1, <1>3 DEF TypeOK
  <2>. QED  BY <1>1, <1>2, <2>1, <2>2 DEF TypeOK
<1>6. WritesAccepted' /\ CachesKeyed' /\ CachesFinite'
  BY <1>1, <1>3 DEF TypeInv, WritesAccepted, CachesKeyed, CachesFinite
<1>7. ServingAccepted'
  BY <1>1, <1>4 DEF TypeInv, ServingAccepted, InCache
<1>8. StoredInv => StoredInv'
  <2>1. ASSUME StoredInv PROVE ~(serving'[s].wasStored /\ serving'[s].read = "ok")
    BY <1>1, <1>4, <2>1 DEF StoredInv, r
  <2>2. \A u : Rows(u)' = Rows(u)
    BY <1>3 DEF Rows
  <2>. QED  BY <1>1, <1>4, <2>1, <2>2 DEF StoredInv
<1>9. AnswerMatchesRequest => AnswerMatchesRequest'
  BY <1>1, <1>4 DEF AnswerMatchesRequest, r
<1>. QED  BY <1>5, <1>6, <1>7, <1>8, <1>9 DEF TypeInv

(* What is done behind the back of a request: the workers, the write       *)
(* thread, and the cache between two requests.  Nothing takes a row away.  *)
LEMMA OtherStep ==
  ASSUME TypeInv,
         \/ \E n \in Requests : StartRender(n)
         \/ \E s \in Servers : Expire(s)
         \/ WriteBatch
         \/ UNCHANGED vars
  PROVE  /\ TypeInv'
         /\ StoredInv => StoredInv'
         /\ AnswerMatchesRequest => AnswerMatchesRequest'
<1>1. UNCHANGED <<serving, received>> /\ TypeOK
  BY DEF StartRender, Expire, WriteBatch, vars, TypeInv
<1>2. waiting' \cup running' \cup done' \subseteq Requests
  BY <1>1 DEF StartRender, Expire, WriteBatch, Pool!Start, TypeOK, poolVars, vars
<1>3. /\ pending' \cup writing' \cup stored' \subseteq pending \cup writing \cup stored
      /\ stored \subseteq stored' /\ force' \in BOOLEAN
  <2>1. CASE UNCHANGED storeVars
    BY <1>1, <2>1 DEF storeVars, TypeOK
  <2>2. CASE WriteBatch
    BY <1>1, <2>2 DEF WriteBatch, Store!Take, Store!Store, Store!Drop,
                      Store!RequestCommit, TypeOK
  <2>. QED  BY <2>1, <2>2 DEF StartRender, Expire, vars
<1>4. /\ cache' \in [Servers -> SUBSET [key : Keys, image : Tiles]]
      /\ \A z \in Servers : cache'[z] \subseteq cache[z]
      /\ \A z \in Servers : serving[z].pc # "idle" => cache'[z] = cache[z]
  <2>1. CASE UNCHANGED cache
    BY <1>1, <2>1 DEF TypeOK
  <2>2. ASSUME NEW s \in Servers, Expire(s) PROVE <1>4
    BY <1>1, <2>2 DEF Expire, TypeOK
  <2>. QED  BY <2>1, <2>2 DEF StartRender, WriteBatch, vars
<1>5. \A z \in Servers : /\ IsFiniteSet(cache'[z])
                         /\ Cardinality(cache'[z]) <= CacheSize
  <2>. SUFFICES ASSUME NEW z \in Servers
                PROVE  IsFiniteSet(cache'[z]) /\ Cardinality(cache'[z]) <= CacheSize
    OBVIOUS
  <2>1. IsFiniteSet(cache[z]) /\ Cardinality(cache[z]) <= CacheSize
    BY DEF TypeInv, TypeOK, CachesFinite
  <2>2. /\ IsFiniteSet(cache'[z])
        /\ Cardinality(cache'[z]) <= Cardinality(cache[z])
    BY <1>4, <2>1, FS_Subset
  <2>3. Cardinality(cache[z]) \in Nat /\ Cardinality(cache'[z]) \in Nat /\ CacheSize \in Nat
    BY <2>1, <2>2, FS_CardinalityType, ServerAssumption
  <2>. QED  BY <2>1, <2>2, <2>3
<1>6. TypeOK'
  <2>1. \A z \in Servers : \A d, e \in cache'[z] : d.key = e.key => d = e
    BY <1>1, <1>4 DEF TypeOK
  <2>. QED  BY <1>1, <1>2, <1>3, <1>4, <1>5, <2>1 DEF TypeOK
<1>7. WritesAccepted' /\ CachesKeyed' /\ CachesFinite'
  BY <1>3, <1>4, <1>5 DEF TypeInv, WritesAccepted, CachesKeyed, CachesFinite
<1>8. ServingAccepted'
  BY <1>1, <1>4 DEF TypeInv, ServingAccepted, InCache
<1>9. StoredInv => StoredInv'
  <2>1. \A u : Rows(u) \subseteq Rows(u)'
    BY <1>3 DEF Rows
  <2>. QED  BY <1>1, <2>1 DEF StoredInv
<1>10. AnswerMatchesRequest => AnswerMatchesRequest'
  BY <1>1 DEF AnswerMatchesRequest
<1>. QED  BY <1>6, <1>7, <1>8, <1>9, <1>10 DEF TypeInv

-----------------------------------------------------------------------------
LEMMA EveryStep ==
  ASSUME TypeInv, [Next]_vars
  PROVE  /\ TypeInv'
         /\ StoredInv => StoredInv'
         /\ KeysAreExact /\ AnswerMatchesRequest => AnswerMatchesRequest'
<1>1. ASSUME NEW s \in Servers, NEW url \in Urls, Receive(s, url)
      PROVE  /\ TypeInv'
             /\ StoredInv => StoredInv'
             /\ KeysAreExact /\ AnswerMatchesRequest => AnswerMatchesRequest'
  BY <1>1, ReceiveStep
<1>2. ASSUME NEW s \in Servers, Fetch(s)
      PROVE  /\ TypeInv'
             /\ StoredInv => StoredInv'
             /\ KeysAreExact /\ AnswerMatchesRequest => AnswerMatchesRequest'
  BY <1>2, FetchStep
<1>3. ASSUME NEW s \in Servers, Submit(s) \/ EndRender(s) \/ Reply(s)
      PROVE  /\ TypeInv'
             /\ StoredInv => StoredInv'
             /\ AnswerMatchesRequest => AnswerMatchesRequest'
  BY <1>3, RenderStep
<1>4. ASSUME \/ \E n \in Requests : StartRender(n)
             \/ \E s \in Servers : Expire(s)
             \/ WriteBatch
             \/ UNCHANGED vars
      PROVE  /\ TypeInv'
             /\ StoredInv => StoredInv'
             /\ AnswerMatchesRequest => AnswerMatchesRequest'
  BY <1>4, OtherStep
<1>. QED  BY <1>1, <1>2, <1>3, <1>4 DEF Next, Work

(* The variables keep their types: no cache holds more images than fit, or *)
(* two under one key, although the images come and go.                     *)
THEOREM TypeCorrect == Spec => []TypeOK
<1>1. Init => TypeInv
  BY TypeInit
<1>2. TypeInv /\ [Next]_vars => TypeInv'
  BY EveryStep
<1>3. TypeInv => TypeOK
  BY DEF TypeInv
<1>. QED  BY <1>1, <1>2, <1>3, PTL DEF Spec

-----------------------------------------------------------------------------
(* Where the keys have position, zoom and width: X is 2^20, Z is 2^8.  The *)
(* or of the code is the sum of its operands while no part reaches into    *)
(* the next, which TLC checks of TileHash (PartsInPlace of MCTileCache).   *)
KeyParts(X, Z) ==
  \A t \in AcceptedTiles :
    /\ t.x < X /\ t.y < X /\ t.z < Z
    /\ PosHash(t) = (t.z * X + t.x) * X + t.y
    /\ mem_cache_key[t] = (IF t.w = 256 THEN 8 ELSE 9) * (Z * X * X) + PosHash(t)

LEMMA PartsOfSum ==
  ASSUME NEW M \in Nat, NEW a \in Nat, NEW b \in Nat, NEW c \in Nat, NEW d \in Nat,
         b < M, d < M, a * M + b = c * M + d
  PROVE  a = c /\ b = d
<1>1. CASE a = c
  BY <1>1
<1>2. ASSUME NEW p \in Nat, NEW q \in Nat, p < q PROVE p * M + M <= q * M
  <2>1. PICK k \in Nat : q = p + 1 + k
    <3>1. q - p - 1 \in Nat /\ q = p + 1 + (q - p - 1)
      BY <1>2
    <3>. QED  BY <3>1
  <2>2. q * M = p * M + M + k * M /\ k * M \in Nat /\ p * M \in Nat
    BY <2>1
  <2>. QED  BY <2>2
<1>3. a * M \in Nat /\ c * M \in Nat
  OBVIOUS
<1>4. CASE a < c
  BY <1>2, <1>3, <1>4
<1>5. CASE c < a
  BY <1>2, <1>3, <1>5
<1>. QED  BY <1>1, <1>4, <1>5

LEMMA SumBelow ==
  ASSUME NEW M \in Nat, NEW N \in Nat, NEW a \in Nat, NEW b \in Nat, a < N, b < M
  PROVE  a * M + b < N * M /\ a * M + b \in Nat
<1>1. PICK k \in Nat : N = a + 1 + k
  <2>1. N - a - 1 \in Nat /\ N = a + 1 + (N - a - 1)
    OBVIOUS
  <2>. QED  BY <2>1
<1>2. N * M = a * M + M + k * M /\ k * M \in Nat /\ a * M \in Nat
  BY <1>1
<1>. QED  BY <1>2

LEMMA KeysExact ==
  ASSUME NEW X \in Nat, NEW Z \in Nat, KeyParts(X, Z)
  PROVE  HashIsExact /\ KeyIsExact
<1>1. \A t \in AcceptedTiles : t.x \in Nat /\ t.y \in Nat /\ t.z \in Nat /\ t.w \in {256, 512}
  <2>. SUFFICES ASSUME NEW u \in Urls, NEW t, t = parse_tile(u.path), Accepted(t)
                PROVE  t.x \in Nat /\ t.y \in Nat /\ t.z \in Nat /\ t.w \in {256, 512}
    BY DEF AcceptedTiles, Tiles
  <2>1. t.x \in Nat \cup {-1} /\ t.y \in Nat \cup {-1} /\ t.z \in Nat \cup {-1}
    BY ServerAssumption DEF parse_tile
  <2>. QED  BY <2>1 DEF Accepted, tile_valid
<1>. DEFINE row(t) == t.z * X + t.x
<1>2. \A t \in AcceptedTiles :
        /\ row(t) \in Nat /\ row(t) < Z * X /\ PosHash(t) = row(t) * X + t.y
        /\ PosHash(t) \in Nat /\ PosHash(t) < Z * X * X
  <2>. SUFFICES ASSUME NEW t \in AcceptedTiles
                PROVE  /\ row(t) \in Nat /\ row(t) < Z * X /\ PosHash(t) = row(t) * X + t.y
                       /\ PosHash(t) \in Nat /\ PosHash(t) < Z * X * X
    OBVIOUS
  <2>1. row(t) \in Nat /\ row(t) < Z * X /\ Z * X \in Nat
    BY <1>1, SumBelow DEF KeyParts
  <2>2. PosHash(t) = row(t) * X + t.y /\ t.y < X /\ t.y \in Nat
    BY <1>1 DEF KeyParts
  <2>. HIDE DEF row
  <2>. QED  BY <2>1, <2>2, SumBelow
<1>3. ASSUME NEW t \in AcceptedTiles, NEW u \in AcceptedTiles, PosHash(t) = PosHash(u)
      PROVE  t.x = u.x /\ t.y = u.y /\ t.z = u.z
  <2>1. /\ t.x \in Nat /\ t.y \in Nat /\ t.z \in Nat /\ t.x < X /\ t.y < X
        /\ u.x \in Nat /\ u.y \in Nat /\ u.z \in Nat /\ u.x < X /\ u.y < X
    BY <1>1 DEF KeyParts
  <2>2. row(t) \in Nat /\ row(u) \in Nat /\ row(t) * X + t.y = row(u) * X + u.y
    BY <1>2, <1>3
  <2>3. row(t) = row(u) /\ t.y = u.y
    <3>. HIDE DEF row
    <3>. QED  BY <2>1, <2>2, PartsOfSum
  <2>4. t.z * X + t.x = u.z * X + u.x
    BY <2>3
  <2>5. t.z = u.z /\ t.x = u.x
    <3>. DEFINE a == t.z  b == t.x  c == u.z  d == u.x
    <3>1. /\ a \in Nat /\ b \in Nat /\ c \in Nat /\ d \in Nat /\ b < X /\ d < X
          /\ a * X + b = c * X + d
      BY <2>1, <2>4
    <3>. HIDE DEF a, b, c, d
    <3>2. a = c /\ b = d
      BY <3>1, PartsOfSum
    <3>. QED  BY <3>2 DEF a, b, c, d
  <2>. QED  BY <2>3, <2>5
<1>4. ASSUME NEW t \in AcceptedTiles, NEW u \in AcceptedTiles,
             mem_cache_key[t] = mem_cache_key[u]
      PROVE  t.w = u.w /\ PosHash(t) = PosHash(u)
  <2>. DEFINE M == Z * X * X
              log2(w) == IF w = 256 THEN 8 ELSE 9
  <2>1. M \in Nat
    OBVIOUS
  <2>2. log2(t.w) * M + PosHash(t) = log2(u.w) * M + PosHash(u)
    BY <1>4 DEF KeyParts
  <2>3. PosHash(t) \in Nat /\ PosHash(t) < M /\ PosHash(u) \in Nat /\ PosHash(u) < M
    BY <1>2
  <2>4. log2(t.w) \in Nat /\ log2(u.w) \in Nat
    OBVIOUS
  <2>5. log2(t.w) = log2(u.w) /\ PosHash(t) = PosHash(u)
    <3>. HIDE DEF M, log2
    <3>. QED  BY <2>1, <2>2, <2>3, <2>4, PartsOfSum
  <2>. QED  BY <1>1, <2>5
<1>. QED  BY <1>3, <1>4 DEF HashIsExact, KeyIsExact, AcceptedTiles

(* An image that is answered is of the tile that was asked for, however    *)
(* requests share threads, caches and rows, as long as positions and zooms *)
(* have room in the keys and nobody asks for an oblong tile.               *)
THEOREM AnswersMatch ==
  ASSUME NEW X \in Nat, NEW Z \in Nat, KeyParts(X, Z), SquareTiles
  PROVE  Spec => []AnswerMatchesRequest
<1>1. Init => TypeInv /\ AnswerMatchesRequest
  BY TypeInit DEF Init, AnswerMatchesRequest, Nothing
<1>2. KeysAreExact
  BY KeysExact DEF KeysAreExact
<1>3. TypeInv /\ AnswerMatchesRequest /\ [Next]_vars => (TypeInv /\ AnswerMatchesRequest)'
  BY <1>2, EveryStep
<1>. QED  BY <1>1, <1>3, PTL DEF Spec

(* A tile that was in the database when its request came in is answered    *)
(* from the cache or the database, unless reading the database fails: no   *)
(* other thread, batch or expiry in between can make it miss.              *)
THEOREM StoredServed == Spec => []StoredIsServed
<1>1. Init => TypeInv /\ StoredInv
  BY TypeInit DEF Init, StoredInv, Nothing
<1>2. TypeInv /\ StoredInv /\ [Next]_vars => (TypeInv /\ StoredInv)'
  BY EveryStep
<1>3. StoredInv => StoredIsServed
  BY DEF StoredInv, StoredIsServed
<1>. QED  BY <1>1, <1>2, <1>3, PTL DEF Spec
=============================================================================
