---------------------------- MODULE MCTileServer ----------------------------
(* Instances of TileServer for TLC.                                         *)
EXTENDS TileServer, TileHash, TLC

Tile(x, y, d) == <<x, y, 1, d, d>>
Url(path, query) == [path |-> path, query |-> query]
Cached == <<"cached", "true">>
Other  == <<"style", "osm">>

(* One position in both sizes of the tile URL, the position with x and y   *)
(* exchanged; cached=true, also where parse_uri_params does not come to it; *)
(* a size serve_tile refuses and a path that ends early.                   *)
MCUrls ==
  {Url(Tile(0, 1, 256), q) : q \in {<<>>, <<Other, Cached>>}}
  \cup {Url(Tile(0, 1, 512), <<>>)}
  \cup {Url(Tile(1, 0, 256), q) : q \in {<<>>, <<Cached>>, <<Other, Other, Cached>>}}
  \cup {Url(Tile(1, 0, 128), <<>>), Url(<<1, 0, 1, 256>>, <<>>)}
MCOldTiles == {parse_tile(Tile(0, 1, 256))}
MCMayFail  == {parse_tile(Tile(1, 0, 256))}

(* The tiles asked for have positions that fit into the hash and the key. *)
ASSUME PositionsFit == \A t \in Tiles : Accepted(t) => Fits(t)
=============================================================================
