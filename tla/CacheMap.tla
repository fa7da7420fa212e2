------------------------------ MODULE CacheMap ------------------------------
(***************************************************************************)
(* What the memory cache of an HTTP thread promises: a key that was cached *)
(* is found, with the buffer it was cached with, until it expires.         *)
(***************************************************************************)
CONSTANTS Keys, Buffers

VARIABLES
  contents,  (* the cached keys and the buffer of each *)
  answer     (* the key of the last lookup and its buffer, or "miss" *)

mapVars == <<contents, answer>>

Init == contents = {} /\ answer = <<>>

Cached(k) == \E b \in Buffers : <<k, b>> \in contents

Hit(k) ==
  /\ \E b \in Buffers : <<k, b>> \in contents /\ answer' = <<k, b>>
  /\ UNCHANGED contents

(* A key that is not cached is fetched; the cache may have no room for it. *)
Miss(k) ==
  /\ ~Cached(k)
  /\ answer' = <<k, "miss">>
  /\ \/ UNCHANGED contents
     \/ \E b \in Buffers : /\ \A e \in contents : e[2] # b
                           /\ contents' = contents \cup {<<k, b>>}

Expire ==
  /\ contents' \in SUBSET contents
  /\ UNCHANGED answer

Next == Expire \/ \E k \in Keys : Hit(k) \/ Miss(k)

Spec == Init /\ [][Next]_mapVars
=============================================================================
