------------------------------ MODULE PolyFill ------------------------------
(***************************************************************************)
(* fill_poly_advance of poly_fill.c: the tiles of a polygon, a batch of at *)
(* most max_fills at a time.  A batch that is full stops the fill in the   *)
(* middle of a row; the next call goes on from the three cursors the state *)
(* keeps.  A polygon is its outline - tiles, sorted by row and column - and *)
(* the tiles the hit test finds inside (PolyGeometry computes both).       *)
(***************************************************************************)
EXTENDS Integers, Sequences, FiniteSets

CONSTANTS Shapes,        \* the polygons: [outline |-> tiles in order, inside |-> tiles]
          MaxFills       \* the sizes of a batch (8096 in setup_prerender)

(* The order of line_cmp, in which fill_poly_state_init sorts an outline.  *)
InOrder(a, b) == a[2] < b[2] \/ (a[2] = b[2] /\ a[1] <= b[1])

ASSUME ShapesAssumption ==
  \A s \in Shapes : /\ s.outline \in Seq(Int \X Int) /\ s.outline # <<>>
                    /\ s.inside \subseteq Int \X Int
                    /\ \A i, j \in 1..Len(s.outline) :
                         i <= j => InOrder(s.outline[i], s.outline[j])
ASSUME MaxFillsAssumption == MaxFills \subseteq Nat \ {0}

VARIABLES shape,            \* fill_poly_state: polygon, outline, outline_len
          max_fills,        \* fill_limit of the tile_calc_job
          inner_fill_idx,   \* the span of the outline the fill is in
          x,                \* how many tiles of the span it has looked at
          outline_idx,      \* how much of the outline has been listed
          finished,
          running,          \* a call of fill_poly_advance is under way
          filled,           \* the tiles of the call, or of the last one
          listed            \* the tiles of the calls that returned

cursors == <<inner_fill_idx, x, outline_idx>>
vars == <<shape, max_fills, inner_fill_idx, x, outline_idx, finished, running,
          filled, listed>>

outline_len == Len(shape.outline)
Elements(s) == {s[i] : i \in DOMAIN s}      \* unique() of a batch

-----------------------------------------------------------------------------
(* What a fill is to list, whatever the batches: the outline, and between  *)
(* two neighbours of it in a row the tiles that lie inside.                *)
Span(i, upto) ==
  LET p == shape.outline[i]
      n == shape.outline[i + 1] IN
  IF p[2] = n[2]
  THEN {t \in shape.inside : t[2] = p[2] /\ p[1] < t[1] /\ t[1] < n[1] /\ t[1] < upto}
  ELSE {}

Whole == Elements(shape.outline)
         \cup UNION {Span(i, shape.outline[i + 1][1]) : i \in 1..outline_len - 1}

-----------------------------------------------------------------------------
(* fill_poly_state_init, for a tile_calc_job of make_tile_calc_jobs.       *)
Init ==
  /\ shape \in Shapes
  /\ max_fills \in MaxFills
  /\ inner_fill_idx = 0 /\ x = 0 /\ outline_idx = 0
  /\ finished = FALSE
  /\ running = FALSE
  /\ filled = <<>>
  /\ listed = {}

(* calculate_tiles calls again as long as the state is not finished.       *)
Advance ==
  /\ ~running /\ ~finished
  /\ running' = TRUE
  /\ filled' = <<>>
  /\ UNCHANGED <<shape, max_fills, cursors, finished, listed>>

Return(tiles) ==
  /\ running' = FALSE
  /\ filled' = tiles
  /\ listed' = listed \cup Elements(tiles)

p == shape.outline[inner_fill_idx + 1]
n == shape.outline[inner_fill_idx + 2]
column == p[1] + 1 + x

FillingInner == running /\ inner_fill_idx < outline_len - 1
InSpan == p[2] = n[2] /\ column < n[1]

WithTile == IF <<column, p[2]>> \in shape.inside
            THEN Append(filled, <<column, p[2]>>) ELSE filled

(* Mutant: x is not counted for the tile that fills the batch.             *)
InnerTile_KeepsCursor ==
  /\ FillingInner /\ InSpan
  /\ IF Len(WithTile) >= max_fills THEN x' = x /\ Return(WithTile)
     ELSE x' = x + 1 /\ filled' = WithTile /\ UNCHANGED <<running, listed>>
  /\ UNCHANGED <<shape, max_fills, inner_fill_idx, outline_idx, finished>>

(* One tile of a span; a batch that is full returns and keeps the cursors. *)
InnerTile ==
  /\ FillingInner /\ InSpan
  /\ x' = x + 1
  /\ IF Len(WithTile) >= max_fills THEN Return(WithTile)
     ELSE filled' = WithTile /\ UNCHANGED <<running, listed>>
  /\ UNCHANGED <<shape, max_fills, inner_fill_idx, outline_idx, finished>>

(* Mutant: x goes over from one span to the next.                          *)
NextLine_KeepsX ==
  /\ FillingInner /\ ~InSpan
  /\ inner_fill_idx' = inner_fill_idx + 1
  /\ UNCHANGED <<shape, max_fills, x, outline_idx, finished, running, filled, listed>>

NextLine ==
  /\ FillingInner /\ ~InSpan
  /\ x' = 0
  /\ inner_fill_idx' = inner_fill_idx + 1
  /\ UNCHANGED <<shape, max_fills, outline_idx, finished, running, filled, listed>>

FillingOutline == running /\ inner_fill_idx >= outline_len - 1
(* Mutant: the outline is listed whatever room the batch has left.         *)
RoomAndOutline_Unbounded == outline_idx < outline_len

RoomAndOutline == Len(filled) < max_fills /\ outline_idx < outline_len

OutlineTile ==
  /\ FillingOutline /\ RoomAndOutline
  /\ filled' = Append(filled, shape.outline[outline_idx + 1])
  /\ outline_idx' = outline_idx + 1
  /\ UNCHANGED <<shape, max_fills, inner_fill_idx, x, finished, running, listed>>

EndAdvance ==
  /\ FillingOutline /\ ~RoomAndOutline
  /\ finished' = (outline_idx >= outline_len)
  /\ Return(filled)
  /\ UNCHANGED <<shape, max_fills, cursors>>

Next == Advance \/ InnerTile \/ NextLine \/ OutlineTile \/ EndAdvance

(* The task of a calculation posts itself until the state is finished, and *)
(* a call computes without waiting for anybody.                            *)
Spec == Init /\ [][Next]_vars
FairSpec == Spec /\ WF_vars(Next)

-----------------------------------------------------------------------------
TypeOK ==
  /\ shape \in Shapes /\ max_fills \in MaxFills
  /\ inner_fill_idx \in 0..outline_len - 1
  /\ x \in Nat
  /\ outline_idx \in 0..outline_len
  /\ running \in BOOLEAN
  /\ filled \in Seq(Int \X Int)

(* The tiles of a polygon do not depend on where its batches end: a fill   *)
(* that is finished has listed every tile of the outline and of the spans, *)
(* and none else - the cursors resume a span where the last call left it.  *)
FillsWhole == finished => listed = Whole

(* Every call lists a tile (calc_tiles returns none otherwise, and a job   *)
(* would go round for nothing) and at most max_fills; a tile two batches   *)
(* list is one the outline passes twice: no tile inside is rendered twice. *)
Repeated == {shape.outline[i] : i \in {j \in 1..outline_len - 1 :
                                         shape.outline[j] = shape.outline[j + 1]}}
GoodBatch ==
  (running /\ ~running') => /\ Len(filled') \in 1..max_fills
                            /\ listed \cap Elements(filled') \subseteq Repeated
GoodBatches == [][GoodBatch]_vars

(* A fill comes to its end, however small its batches: the calculation of  *)
(* a prerender job does not post itself for ever.                          *)
FillEnds == <>finished
=============================================================================
