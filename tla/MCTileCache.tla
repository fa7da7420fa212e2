---------------------------- MODULE MCTileCache ----------------------------
(* The instance of TileCache for TLC: one image is as large as the cache.   *)
EXTENDS TileCache

MCSizeOf == [k \in Keys |-> IF k = 3 THEN 2 ELSE 1]

(* Also a clock that is set back. *)
MCClockSteps == {-1, 0, 1, 3}

-----------------------------------------------------------------------------
(* The keys serve_tile forms. *)
Wide == INSTANCE TileHash WITH HashBits <- 2, ZoomBits <- 3

FittingTiles ==
  {t \in [x : 0..8, y : 0..8, z : 0..8, w : {256, 512}] : Wide!Fits(t)}

(* Bits that are or-ed without a mask do not meet as long as position and  *)
(* zoom fit: hash and key are the sums of their parts (KeyParts of         *)
(* TileServerProofs), up to the last position, zoom and size.              *)
ASSUME PartsInPlace ==
  \A t \in FittingTiles :
    LET hash == Wide!tile_hash(t)
        X == 2^2
        Z == 2^3 IN
    /\ hash = (t.z * X + t.x) * X + t.y
    /\ Wide!cache_key(t.w, hash) = (IF t.w = 256 THEN 8 ELSE 9) * (Z * X * X) + hash
=============================================================================
