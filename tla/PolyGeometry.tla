---------------------------- MODULE PolyGeometry ----------------------------
(***************************************************************************)
(* The geometry of poly_fill.c and poly_hit_test.c: the tiles a line       *)
(* passes, the outline of a polygon, and the test whether a point lies in  *)
(* it.  A coordinate is an integer in units of 1/Unit tile, so that what   *)
(* the code computes in doubles is exact here; a quotient is a pair.       *)
(***************************************************************************)
EXTENDS Integers, Sequences, FiniteSets, TLC

CONSTANT Unit

ASSUME GeometryAssumption == Unit \in Nat \ {0}

Abs(n)   == IF n < 0 THEN -n ELSE n
sign(n)  == IF n > 0 THEN 1 ELSE IF n < 0 THEN -1 ELSE 0
Floor(a) == a \div Unit

(* A quotient n/d, infinite with d = 0: DBL_MAX of the code. *)
Quot(n, d)  == IF d # 0 THEN [n |-> n, d |-> d]
               ELSE IF n = 0 THEN [n |-> 0, d |-> 1] ELSE [n |-> 1, d |-> 0]
Less(p, q)  == p.n * q.d < q.n * p.d
AboveOne(p) == p.n > p.d

-----------------------------------------------------------------------------
(* raycast: from tile to tile by the nearer of the next vertical and the   *)
(* next horizontal border, until both are behind the end of the line.  The *)
(* tile of the end is left to the line that begins there.                  *)
ToBorder(from, step) == IF step > 0 THEN Unit - (from % Unit) ELSE from % Unit

(* Mutant: the walk ends behind one of the borders (|| for &&).            *)
PastEnd_Either(nx, ny, dist) ==
  AboveOne(Quot(nx, Abs(dist[1]))) \/ AboveOne(Quot(ny, Abs(dist[2])))

PastEnd(nx, ny, dist) ==
  AboveOne(Quot(nx, Abs(dist[1]))) /\ AboveOne(Quot(ny, Abs(dist[2])))

RECURSIVE Walk(_, _, _, _, _, _)
Walk(x, y, nx, ny, dist, out) ==
  LET tx == IF dist[1] = 0 /\ nx > 0 THEN Quot(1, 0) ELSE Quot(nx, Abs(dist[1]))
      ty == IF dist[2] = 0 /\ ny > 0 THEN Quot(1, 0) ELSE Quot(ny, Abs(dist[2]))
      inX == Less(tx, ty)
      x2 == IF inX THEN x + sign(dist[1]) ELSE x
      y2 == IF inX THEN y ELSE y + sign(dist[2])
      nx2 == IF inX THEN nx + Unit ELSE nx
      ny2 == IF inX THEN ny ELSE ny + Unit IN
  IF PastEnd(nx2, ny2, dist) THEN out
  ELSE Walk(x2, y2, nx2, ny2, dist, Append(out, <<x2, y2>>))

raycast(begin, end) ==
  LET dist == <<end[1] - begin[1], end[2] - begin[2]>> IN
  Walk(Floor(begin[1]), Floor(begin[2]),
       ToBorder(begin[1], dist[1]), ToBorder(begin[2], dist[2]),
       dist, <<<<Floor(begin[1]), Floor(begin[2])>>>>)

(* make_outline and the qsort of fill_poly_state_init. *)
line_cmp(p, q) == p[2] < q[2] \/ (p[2] = q[2] /\ p[1] < q[1])

RECURSIVE Lines(_, _)
Lines(poly, i) ==
  IF i = Len(poly) THEN raycast(poly[i], poly[1])
  ELSE raycast(poly[i], poly[i + 1]) \o Lines(poly, i + 1)

make_outline(poly) == SortSeq(Lines(poly, 1), line_cmp)

-----------------------------------------------------------------------------
(* poly_hit_test_check: an odd number of lines cross the row of the point  *)
(* to the left of it.                                                      *)
Before(poly, i) == IF i = 1 THEN poly[Len(poly)] ELSE poly[i - 1]

CrossesLeft(pi, pj, x, y) ==
  LET dy == pj[2] - pi[2]
      at == (pi[1] - x) * dy + (y - pi[2]) * (pj[1] - pi[1]) IN
  IF dy > 0 THEN at < 0 ELSE at > 0

poly_hit_test_check(poly, x, y) ==
  LET crossing == {i \in DOMAIN poly :
        LET pi == poly[i]
            pj == Before(poly, i) IN
        (pi[2] < y) # (pj[2] < y) /\ CrossesLeft(pi, pj, x, y)} IN
  Cardinality(crossing) % 2 = 1

=============================================================================
