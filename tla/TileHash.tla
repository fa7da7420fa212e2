------------------------------ MODULE TileHash ------------------------------
(***************************************************************************)
(* The numbers a tile is known by: tile_hash of ts_tile.h, zoom, x and y   *)
(* without a mask, the key of its row in the database; and the key of the  *)
(* memory cache, which has log2 of the width above it.  Both are 64 bits.  *)
(***************************************************************************)
EXTENDS Integers, Bitwise

CONSTANTS
  HashBits,      (* bits of x and of y: 20 *)
  ZoomBits       (* bits between the zoom and the width: 8 *)

KeyBits == 2 * HashBits + ZoomBits + 16
uint64(n) == n % 2^KeyBits

(* Mutant: x is shifted by a bit too few. *)
tile_hash_Narrow(t) ==
  uint64((t.z * 2^(2 * HashBits)) | (t.x * 2^(HashBits - 1)) | t.y)

tile_hash(t) == uint64((t.z * 2^(2 * HashBits)) | (t.x * 2^HashBits) | t.y)

(* The number of the lowest bit of an int that is not 0. *)
log2pow2(v) == CHOOSE i \in 0..30 : v % 2^(i + 1) = 2^i

(* Mutant: the width is put on the bits of the zoom. *)
cache_key_OnZoom(w, hash) == uint64((log2pow2(w) * 2^(2 * HashBits)) | hash)

cache_key(w, hash) == uint64((log2pow2(w) * 2^(2 * HashBits + ZoomBits)) | hash)

(* The positions whose parts have room: zooms up to 20 and their           *)
(* coordinates, with the bits of the code.                                 *)
Fits(t) == {t.x, t.y} \subseteq 0..2^HashBits - 1 /\ t.z \in 0..2^ZoomBits - 1
=============================================================================
