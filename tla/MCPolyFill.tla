----------------------------- MODULE MCPolyFill -----------------------------
(***************************************************************************)
(* PolyFill for the outlines and hit tests PolyGeometry computes, with     *)
(* polygons on a grid of Unit points per tile, and what a fill must be of  *)
(* the polygon itself.                                                     *)
(***************************************************************************)
EXTENDS PolyFill, PolyGeometry

CONSTANTS Size,        \* triangles have their corners on a grid of this size
          Extent       \* the other polygons lie on one of this size

Points == (0..Size) \X (0..Size)
Tiles  == (0..Extent \div Unit) \X (0..Extent \div Unit)

-----------------------------------------------------------------------------
(* The reference: a tile meets a polygon when a line of the polygon passes *)
(* its square or its centre lies inside (by the parity of the lines a ray  *)
(* to the right crosses).                                                  *)
Side(s, e, c) == (e[1] - s[1]) * (c[2] - s[2]) - (e[2] - s[2]) * (c[1] - s[1])
Corners(t) == {<<(t[1] + i) * Unit, (t[2] + j) * Unit>> : i, j \in {0, 1}}
Lesser(a, b) == IF a < b THEN a ELSE b
Greater(a, b) == IF a < b THEN b ELSE a

Touches(s, e, t) ==
  /\ \A k \in 1..2 : /\ Lesser(s[k], e[k]) <= (t[k] + 1) * Unit
                     /\ Greater(s[k], e[k]) >= t[k] * Unit
  /\ \E c \in Corners(t) : Side(s, e, c) <= 0
  /\ \E c \in Corners(t) : Side(s, e, c) >= 0

Crosses(s, e, t) ==
  /\ \A k \in 1..2 : /\ Lesser(s[k], e[k]) < (t[k] + 1) * Unit
                     /\ Greater(s[k], e[k]) > t[k] * Unit
  /\ \E c \in Corners(t) : Side(s, e, c) < 0
  /\ \E c \in Corners(t) : Side(s, e, c) > 0

CentreInside(poly, t) ==
  LET cx == (2 * t[1] + 1) * Unit
      cy == (2 * t[2] + 1) * Unit
      right == {i \in DOMAIN poly :
        LET a == poly[i]
            b == Before(poly, i)
            low  == IF a[2] < b[2] THEN a ELSE b
            high == IF a[2] < b[2] THEN b ELSE a IN
        /\ 2 * low[2] <= cy /\ cy < 2 * high[2]
        /\ (high[1] - low[1]) * (cy - 2 * low[2])
             > (high[2] - low[2]) * (cx - 2 * low[1])} IN
  Cardinality(right) % 2 = 1

Covered(poly, t) ==
  CentreInside(poly, t) \/ \E i \in DOMAIN poly : Crosses(poly[i], Before(poly, i), t)
Near(poly, t) ==
  CentreInside(poly, t) \/ \E i \in DOMAIN poly : Touches(poly[i], Before(poly, i), t)

(* Polygons no line of which passes the corner of a tile, as good as all   *)
(* polygons with vertices in doubles.                                      *)
TileCorners == {<<t[1] * Unit, t[2] * Unit>> : t \in Tiles}
AvoidsCorners(poly) ==
  \A i \in DOMAIN poly : \A c \in TileCorners :
    ~ /\ Side(poly[i], Before(poly, i), c) = 0
      /\ \A k \in 1..2 : /\ Lesser(poly[i][k], Before(poly, i)[k]) <= c[k]
                         /\ c[k] <= Greater(poly[i][k], Before(poly, i)[k])

Precedes(a, b) == a[1] < b[1] \/ (a[1] = b[1] /\ a[2] < b[2])
Triangles == {q \in Points \X Points \X Points :
  /\ Precedes(q[1], q[2]) /\ Precedes(q[1], q[3]) /\ Side(q[1], q[2], q[3]) # 0
  /\ AvoidsCorners(q)}

(* A dart, a bow tie, a comb with two teeth, a big square: several spans   *)
(* in a row, tiles the outline passes twice, rows inside from end to end.  *)
Others == {<<<<1, 1>>, <<7, 4>>, <<1, 7>>, <<3, 4>>>>,
           <<<<1, 1>>, <<7, 8>>, <<7, 1>>, <<1, 6>>>>,
           <<<<1, 1>>, <<9, 1>>, <<9, 9>>, <<7, 9>>, <<7, 3>>, <<3, 3>>, <<3, 9>>, <<1, 9>>>>,
           <<<<1, 1>>, <<9, 1>>, <<9, 9>>, <<1, 9>>>>}

ASSUME OthersAvoidCorners == \A q \in Others : AvoidsCorners(q)

MCShapes ==
  {[poly |-> q, outline |-> make_outline(q),
    inside |-> {t \in Tiles : poly_hit_test_check(q, t[1] * Unit, t[2] * Unit)}]
     : q \in Triangles \cup Others}

-----------------------------------------------------------------------------
(* A finished fill has listed every tile the polygon covers a part of, and *)
(* no tile that lies apart from it: the corner of a tile is what the hit   *)
(* test looks at, and it speaks for the tile only because the tiles the    *)
(* lines pass are in the outline.                                          *)
FillsPolygon ==
  finished =>
    \A t \in Tiles : /\ Covered(shape.poly, t) => t \in listed
                     /\ t \in listed => Near(shape.poly, t)
=============================================================================
