----------------------------- MODULE TileRequest -----------------------------
(***************************************************************************)
(* What a tile URL says: parse_tile and tile_valid of ts_tile.c,           *)
(* parse_uri_params of query.c.  A path is its numbers, in order, those of *)
(* the query too, which parse_tile does not tell apart; a query is its     *)
(* parameters, as <<name, value>>.                                         *)
(***************************************************************************)
EXTENDS Integers, Sequences

CONSTANT MaxParams     (* params of serve_tile: 4 *)

(* int32_t params[5], preset to -1; a path with more than five numbers     *)
(* writes behind it, whatever that does: the paths here have five at most. *)
parse_tile(path) ==
  LET param(i) == IF i <= Len(path) THEN path[i] ELSE -1 IN
  [x |-> param(1), y |-> param(2), z |-> param(3), w |-> param(4), h |-> param(5)]

tile_valid(t) == t.w > 0 /\ t.h > 0 /\ t.x > -1 /\ t.y > -1 /\ t.z > -1

(* parse_uri_params stops with the array full. *)
parse_uri_params(query) ==
  SubSeq(query, 1, IF Len(query) < MaxParams THEN Len(query) ELSE MaxParams)

ForceCache(query) ==
  \E i \in DOMAIN parse_uri_params(query) : query[i] = <<"cached", "true">>
=============================================================================
