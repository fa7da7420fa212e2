--------------------------- MODULE PolyFillProofs ---------------------------
(***************************************************************************)
(* For every outline, every set of tiles inside and every batch size: a    *)
(* fill that has ended has listed what a fill without batches lists, no    *)
(* batch is empty or too large, and no two list the same tile, but one     *)
(* that the outline passes twice.                                          *)
(***************************************************************************)
EXTENDS PolyFill, TLAPS

(* What the cursors say has been looked at: the outline up to outline_idx, *)
(* the spans before inner_fill_idx, and x tiles of that span.              *)
OutlineSeen == {shape.outline[i] : i \in 1..outline_idx}
SpansSeen   == UNION {Span(i, shape.outline[i + 1][1]) : i \in 1..inner_fill_idx}
SpanSeen    == IF inner_fill_idx < outline_len - 1
               THEN Span(inner_fill_idx + 1, column) ELSE {}
Seen        == OutlineSeen \cup SpansSeen \cup SpanSeen
Found       == listed \cup (IF running THEN Elements(filled) ELSE {})

(* The outline comes after the spans, and a fill ends with it.             *)
Order ==
  /\ outline_idx > 0 => inner_fill_idx = outline_len - 1
  /\ finished => outline_idx = outline_len /\ ~running

Accounted == Found = Seen

IInv == TypeOK /\ Order /\ Accounted

-----------------------------------------------------------------------------
(* The facts about a shape the steps need.                                 *)
LEMMA ShapeFacts ==
  ASSUME NEW s \in Shapes
  PROVE  /\ s.outline \in Seq(Int \X Int)
         /\ Len(s.outline) \in Nat \ {0}
         /\ \A i \in 1..Len(s.outline) : /\ s.outline[i] \in Int \X Int
                                         /\ s.outline[i][1] \in Int
                                         /\ s.outline[i][2] \in Int
         /\ s.inside \subseteq Int \X Int
  <1>1. s.outline \in Seq(Int \X Int) /\ s.outline # <<>> /\ s.inside \subseteq Int \X Int
    BY ShapesAssumption
  <1>2. Len(s.outline) \in Nat \ {0}
    BY <1>1
  <1>3. \A i \in 1..Len(s.outline) : s.outline[i] \in Int \X Int
    BY <1>1
  <1> QED BY <1>1, <1>2, <1>3

(* A tile appended to a batch is found, and nothing else.                  *)
LEMMA AppendElements ==
  ASSUME NEW s \in Seq(Int \X Int), NEW t \in Int \X Int
  PROVE  /\ Append(s, t) \in Seq(Int \X Int) /\ Elements(Append(s, t)) = Elements(s) \cup {t}
         /\ Len(Append(s, t)) = Len(s) + 1 /\ Append(s, t) # <<>>
  <1>1. /\ Append(s, t) \in Seq(Int \X Int)
        /\ Len(Append(s, t)) = Len(s) + 1
        /\ \A i \in 1..Len(s) : Append(s, t)[i] = s[i]
        /\ Append(s, t)[Len(s) + 1] = t
    OBVIOUS
  <1>2. DOMAIN s = 1..Len(s) /\ DOMAIN Append(s, t) = 1..(Len(s) + 1) /\ Len(s) \in Nat
    BY <1>1
  <1>3. DOMAIN Append(s, t) = DOMAIN s \cup {Len(s) + 1}
    BY <1>2
  <1>4. Elements(Append(s, t)) = Elements(s) \cup {t}
    BY <1>1, <1>2, <1>3 DEF Elements
  <1>5. Append(s, t) # <<>>
    <2>1. Len(<<>>) = 0 /\ Len(s) + 1 # 0
      BY <1>2
    <2> QED BY <1>1, <2>1
  <1> QED BY <1>1, <1>4, <1>5

-----------------------------------------------------------------------------
LEMMA InitIInv == Init => IInv
  <1> SUFFICES ASSUME Init PROVE IInv
    OBVIOUS
  <1>1. /\ shape.outline \in Seq(Int \X Int) /\ Len(shape.outline) \in Nat \ {0}
        /\ \A i \in 1..Len(shape.outline) : shape.outline[i][1] \in Int
        /\ shape.inside \subseteq Int \X Int
    BY ShapeFacts DEF Init
  <1>2. TypeOK /\ Order
    <2>1. <<>> \in Seq(Int \X Int)
      OBVIOUS
    <2>2. 0 \in 0..outline_len - 1 /\ 0 \in 0..outline_len
      BY <1>1 DEF outline_len
    <2>3. TypeOK
      BY <2>1, <2>2 DEF Init, TypeOK
    <2>4. ~(outline_idx > 0)
      BY DEF Init
    <2>5. ~finished
      BY DEF Init
    <2> QED BY <2>3, <2>4, <2>5 DEF Order
  <1>3. OutlineSeen = {} /\ SpansSeen = {} /\ Found = {}
    BY DEF Init, OutlineSeen, SpansSeen, Found
  <1>4. SpanSeen = {}
    <2>1. \A t \in shape.inside : t[1] \in Int
      BY <1>1
    <2>2. shape.outline[1][1] \in Int
      BY <1>1
    <2>3. \A t \in shape.inside : ~(shape.outline[1][1] < t[1] /\ t[1] < shape.outline[1][1] + 1 + 0)
      BY <2>1, <2>2
    <2> QED BY <2>3 DEF Init, SpanSeen, Span, column, p
  <1> QED BY <1>2, <1>3, <1>4 DEF IInv, Accounted, Seen

LEMMA NextIInv == IInv /\ [Next]_vars => IInv'
  <1> SUFFICES ASSUME IInv, [Next]_vars PROVE IInv'
    OBVIOUS
  <1> USE DEF outline_len
  <1>0. /\ shape \in Shapes /\ max_fills \in MaxFills /\ max_fills \in Nat \ {0}
        /\ inner_fill_idx \in 0..Len(shape.outline) - 1 /\ x \in Nat
        /\ outline_idx \in 0..Len(shape.outline)
        /\ running \in BOOLEAN /\ filled \in Seq(Int \X Int)
        /\ Order /\ Found = Seen
    BY MaxFillsAssumption DEF IInv, TypeOK, Accounted
  <1>1. /\ shape.outline \in Seq(Int \X Int) /\ Len(shape.outline) \in Nat \ {0}
        /\ \A i \in 1..Len(shape.outline) : /\ shape.outline[i] \in Int \X Int
                                            /\ shape.outline[i][1] \in Int
                                            /\ shape.outline[i][2] \in Int
        /\ shape.inside \subseteq Int \X Int
    BY <1>0, ShapeFacts
  <1>a. /\ Len(shape.outline) \in Nat /\ inner_fill_idx \in 0..Len(shape.outline) - 1
        /\ x \in Nat
    BY <1>0, <1>1
  <1>b. \A i \in 1..Len(shape.outline) : shape.outline[i][1] \in Int /\ shape.outline[i][2] \in Int
    BY <1>1
  <1>2. \A t \in shape.inside : t[1] \in Int /\ t[2] \in Int /\ t = <<t[1], t[2]>>
    BY <1>1
  <1>3. CASE Advance
    <2>1. TypeOK' /\ Order'
      BY <1>0, <1>3 DEF Advance, cursors, TypeOK, Order
    <2>2. Found' = Found
      BY <1>3 DEF Advance, Found, Elements
    <2>3. Seen' = Seen
      BY <1>3 DEF Advance, cursors, Seen, OutlineSeen, SpansSeen, SpanSeen, Span, column, p
    <2> QED BY <1>0, <2>1, <2>2, <2>3 DEF IInv, Accounted
  <1>4. CASE InnerTile
    <2> DEFINE here == <<column, p[2]>>
    <2>1. /\ inner_fill_idx + 1 \in 1..Len(shape.outline) /\ inner_fill_idx + 2 \in 1..Len(shape.outline)
          /\ inner_fill_idx < Len(shape.outline) - 1
      <3>1. inner_fill_idx < Len(shape.outline) - 1
        BY <1>4 DEF InnerTile, FillingInner
      <3> QED BY <1>a, <3>1
    <2>a. /\ p[2] = n[2] /\ column < n[1] /\ x' = x + 1
          /\ shape' = shape /\ max_fills' = max_fills /\ inner_fill_idx' = inner_fill_idx
          /\ outline_idx' = outline_idx
      BY <1>4 DEF InnerTile, InSpan
    <2>b. running /\ finished' = finished
      BY <1>4 DEF InnerTile, FillingInner
    <2>2. p[1] \in Int /\ p[2] \in Int /\ n[1] \in Int /\ column \in Int /\ p[1] < column
      BY SMTT(30), <1>a, <1>b, <2>1 DEF p, n, column
    <2>3. p' = p /\ n' = n /\ column' = column + 1
      <3>1. p' = p /\ n' = n
        BY <2>a DEF p, n
      <3>2. column' = p[1] + 1 + (x + 1) /\ column = p[1] + 1 + x
        BY <2>a, <3>1 DEF column
      <3> QED BY <1>a, <2>2, <3>1, <3>2
    <2>4. WithTile \in Seq(Int \X Int)
          /\ Elements(WithTile) = Elements(filled) \cup ({here} \cap shape.inside)
      <3>1. filled \in Seq(Int \X Int) /\ here \in Int \X Int
        BY <1>0, <2>2
      <3>2. Append(filled, here) \in Seq(Int \X Int)
            /\ Elements(Append(filled, here)) = Elements(filled) \cup {here}
        BY <3>1, AppendElements
      <3>3. WithTile = IF here \in shape.inside THEN Append(filled, here) ELSE filled
        BY DEF WithTile
      <3>4. CASE here \in shape.inside
        <4>1. {here} \cap shape.inside = {here}
          BY <3>4
        <4> QED BY <3>2, <3>3, <3>4, <4>1
      <3>5. CASE here \notin shape.inside
        <4>1. {here} \cap shape.inside = {}
          BY <3>5
        <4> QED BY <3>1, <3>3, <3>5, <4>1
      <3> HIDE DEF here
      <3> QED BY <3>4, <3>5
    <2>5. filled' = WithTile
          /\ \/ running' = TRUE /\ listed' = listed
             \/ running' = FALSE /\ listed' = listed \cup Elements(WithTile)
      BY <1>4, <2>b DEF InnerTile, Return
    <2>6. Found' = Found \cup ({here} \cap shape.inside)
      <3>1. Found = listed \cup Elements(filled)
        BY <2>b DEF Found
      <3>2. Found' = listed \cup Elements(WithTile)
        BY <2>5 DEF Found, Elements
      <3> QED BY <2>4, <3>1, <3>2
    <2>7. SpanSeen' = SpanSeen \cup ({here} \cap shape.inside)
      <3>1. SpanSeen = {t \in shape.inside : t[2] = p[2] /\ p[1] < t[1] /\ t[1] < n[1] /\ t[1] < column}
        BY <1>0, <2>1, <2>a DEF SpanSeen, Span, p, n
      <3>2. SpanSeen' = {t \in shape.inside : t[2] = p[2] /\ p[1] < t[1] /\ t[1] < n[1] /\ t[1] < column + 1}
        BY <1>0, <2>1, <2>a, <2>3 DEF SpanSeen, Span, p, n
      <3>3. \A t \in shape.inside :
              (t[2] = p[2] /\ p[1] < t[1] /\ t[1] < n[1] /\ t[1] < column + 1)
                <=> ((t[2] = p[2] /\ p[1] < t[1] /\ t[1] < n[1] /\ t[1] < column) \/ t = here)
        <4> TAKE t \in shape.inside
        <4>1. t = here <=> t[1] = column /\ t[2] = p[2]
          BY <1>2
        <4>2. t[1] \in Int
          BY <1>2
        <4> QED BY <4>1, <4>2, <2>a, <2>2
      <3> QED BY <3>1, <3>2, <3>3
    <2>8. OutlineSeen' = OutlineSeen /\ SpansSeen' = SpansSeen
      BY <2>a DEF OutlineSeen, SpansSeen, Span
    <2>9. TypeOK' /\ Order'
      <3>1. x' \in Nat
        BY <1>0, <2>a
      <3>2. TypeOK'
        BY <1>0, <2>a, <2>4, <2>5, <3>1 DEF TypeOK
      <3>3. ~finished
        BY <1>0, <2>b DEF Order
      <3> QED BY <1>0, <2>a, <2>b, <3>2, <3>3 DEF Order
    <2> QED BY <1>0, <2>6, <2>7, <2>8, <2>9 DEF IInv, Accounted, Seen
  <1>5. CASE NextLine
    <2>1. /\ inner_fill_idx + 1 \in 1..Len(shape.outline) /\ inner_fill_idx + 2 \in 1..Len(shape.outline)
          /\ inner_fill_idx < Len(shape.outline) - 1
      <3>1. inner_fill_idx < Len(shape.outline) - 1
        BY <1>5 DEF NextLine, FillingInner
      <3> QED BY <1>a, <3>1
    <2>a. /\ ~(p[2] = n[2] /\ column < n[1]) /\ x' = 0
          /\ inner_fill_idx' = inner_fill_idx + 1
          /\ shape' = shape /\ max_fills' = max_fills /\ outline_idx' = outline_idx
          /\ filled' = filled /\ listed' = listed
      BY <1>5 DEF NextLine, InSpan
    <2>b. running' = running /\ finished' = finished /\ running
      BY <1>5 DEF NextLine, FillingInner
    <2>2. p[1] \in Int /\ p[2] \in Int /\ n[1] \in Int /\ column \in Int
      BY <1>a, <1>b, <2>1 DEF p, n, column
    <2>3. SpanSeen = Span(inner_fill_idx + 1, n[1])
      <3>1. inner_fill_idx + 1 + 1 = inner_fill_idx + 2
        BY <1>0
      <3>2. \A t \in shape.inside : p[2] = n[2] /\ t[1] < n[1] => t[1] < column
        BY <1>2, <2>a, <2>2
      <3> QED BY <2>1, <3>1, <3>2 DEF SpanSeen, Span, p, n
    <2>4. SpansSeen' = SpansSeen \cup Span(inner_fill_idx + 1, n[1])
      <3>1. 1..inner_fill_idx + 1 = (1..inner_fill_idx) \cup {inner_fill_idx + 1}
        BY <1>0
      <3>2. n[1] = shape.outline[(inner_fill_idx + 1) + 1][1]
        BY <1>0 DEF n
      <3>3. SpansSeen' = UNION {Span(i, shape.outline[i + 1][1]) : i \in 1..inner_fill_idx + 1}
        BY <2>a DEF SpansSeen, Span
      <3> QED BY <3>1, <3>2, <3>3 DEF SpansSeen
    <2>5. SpanSeen' = {}
      <3>1. CASE inner_fill_idx + 1 < Len(shape.outline) - 1
        <4>1. p' = shape.outline[inner_fill_idx + 2] /\ column' = p'[1] + 1 + 0
          BY <1>0, <2>a DEF p, column
        <4>2. p'[1] \in Int
          BY <1>1, <2>1, <4>1
        <4>3. \A t \in shape.inside : ~(p'[1] < t[1] /\ t[1] < column')
          BY <1>2, <4>1, <4>2
        <4> QED BY <1>0, <2>a, <4>1, <4>3 DEF SpanSeen, Span, p
      <3>2. CASE ~(inner_fill_idx + 1 < Len(shape.outline) - 1)
        BY <2>a, <3>2 DEF SpanSeen
      <3> QED BY <3>1, <3>2
    <2>6. Found' = Found /\ OutlineSeen' = OutlineSeen
      BY <2>a, <2>b DEF Found, Elements, OutlineSeen
    <2>7. TypeOK' /\ Order'
      <3>1. inner_fill_idx' \in 0..Len(shape.outline) - 1 /\ x' \in Nat
        BY <1>0, <1>1, <2>1, <2>a
      <3>2. TypeOK'
        BY <1>0, <2>a, <2>b, <3>1 DEF TypeOK
      <3>3. ~(outline_idx' > 0)
        <4>1. outline_idx > 0 => inner_fill_idx = Len(shape.outline) - 1
          BY <1>0 DEF Order
        <4> QED BY <1>0, <1>1, <2>1, <2>a, <4>1
      <3>4. ~finished'
        BY <1>0, <2>b DEF Order
      <3> QED BY <3>2, <3>3, <3>4 DEF Order
    <2> QED BY <1>0, <2>3, <2>4, <2>5, <2>6, <2>7 DEF IInv, Accounted, Seen
  <1>6. CASE OutlineTile
    <2> DEFINE tile == shape.outline[outline_idx + 1]
    <2>1. /\ inner_fill_idx >= Len(shape.outline) - 1
          /\ outline_idx < Len(shape.outline) /\ outline_idx' = outline_idx + 1
          /\ filled' = Append(filled, tile) /\ listed' = listed
          /\ shape' = shape /\ max_fills' = max_fills
          /\ inner_fill_idx' = inner_fill_idx /\ x' = x
      BY <1>6 DEF OutlineTile, FillingOutline, RoomAndOutline
    <2>b. running /\ running' = running /\ finished' = finished
      BY <1>6 DEF OutlineTile, FillingOutline
    <2>2. tile \in Int \X Int
      BY <1>0, <1>1, <2>1
    <2>3. filled' \in Seq(Int \X Int) /\ Elements(filled)' = Elements(filled) \cup {tile}
      <3>1. Append(filled, tile) \in Seq(Int \X Int)
            /\ Elements(Append(filled, tile)) = Elements(filled) \cup {tile}
        BY <1>0, <2>2, AppendElements
      <3> QED BY <2>1, <3>1 DEF Elements
    <2>4. Found' = Found \cup {tile}
      BY <2>1, <2>3, <2>b DEF Found
    <2>5. OutlineSeen' = OutlineSeen \cup {tile}
      <3>1. 1..outline_idx + 1 = (1..outline_idx) \cup {outline_idx + 1}
        BY <1>0
      <3> QED BY <2>1, <3>1 DEF OutlineSeen
    <2>6. SpansSeen' = SpansSeen /\ SpanSeen' = SpanSeen
      BY <2>1 DEF SpansSeen, SpanSeen, Span, column, p
    <2>7. TypeOK' /\ Order'
      <3>1. outline_idx' \in 0..Len(shape.outline) /\ inner_fill_idx' = Len(shape.outline) - 1
        BY <1>0, <1>1, <2>1
      <3>2. TypeOK'
        BY <1>0, <2>1, <2>3, <2>b, <3>1 DEF TypeOK
      <3>3. ~finished'
        BY <1>0, <2>b DEF Order
      <3> QED BY <2>1, <3>1, <3>2, <3>3 DEF Order
    <2> QED BY <1>0, <2>4, <2>5, <2>6, <2>7 DEF IInv, Accounted, Seen
  <1>7. CASE EndAdvance
    <2>1. /\ filled' = filled /\ listed' = listed \cup Elements(filled)
          /\ shape' = shape /\ max_fills' = max_fills
          /\ inner_fill_idx' = inner_fill_idx /\ x' = x /\ outline_idx' = outline_idx
      BY <1>7 DEF EndAdvance, Return, cursors
    <2>b. running /\ running' = FALSE
      BY <1>7 DEF EndAdvance, FillingOutline, Return
    <2>c. finished' => outline_idx >= Len(shape.outline)
      BY <1>7 DEF EndAdvance
    <2>2. Found' = Found
      BY <2>1, <2>b DEF Found, Elements
    <2>3. Seen' = Seen
      BY <2>1 DEF Seen, OutlineSeen, SpansSeen, SpanSeen, Span, column, p
    <2>4. TypeOK' /\ Order'
      <3>1. TypeOK'
        BY <1>0, <2>1, <2>b DEF TypeOK
      <3>2. outline_idx >= Len(shape.outline) => outline_idx = Len(shape.outline)
        BY <1>0, <1>1
      <3> QED BY <1>0, <2>1, <2>b, <2>c, <3>1, <3>2 DEF Order
    <2> QED BY <1>0, <2>2, <2>3, <2>4 DEF IInv, Accounted
  <1>8. CASE UNCHANGED vars
    <2>1. TypeOK' /\ Order'
      BY <1>0, <1>8 DEF vars, cursors, TypeOK, Order
    <2>2. Found' = Found /\ Seen' = Seen
      BY <1>8 DEF vars, cursors, Found, Elements, Seen, OutlineSeen, SpansSeen, SpanSeen,
                  Span, column, p
    <2> QED BY <1>0, <2>1, <2>2 DEF IInv, Accounted
  <1> QED BY <1>3, <1>4, <1>5, <1>6, <1>7, <1>8 DEF Next

(* With the cursors at their ends, what has been seen is the whole.        *)
LEMMA SeenAtEnd == IInv => FillsWhole
  <1> SUFFICES ASSUME IInv, finished PROVE listed = Whole
    BY DEF FillsWhole
  <1>1. Len(shape.outline) \in Nat \ {0}
    BY ShapeFacts DEF IInv, TypeOK
  <1>2. outline_idx = Len(shape.outline) /\ inner_fill_idx = Len(shape.outline) - 1
    BY <1>1 DEF IInv, Order, outline_len
  <1>3. Found = listed /\ SpanSeen = {}
    BY <1>2 DEF IInv, Order, Found, SpanSeen, outline_len
  <1>4. DOMAIN shape.outline = 1..Len(shape.outline)
    BY ShapeFacts DEF IInv, TypeOK
  <1>5. OutlineSeen = Elements(shape.outline)
    BY <1>2, <1>4 DEF OutlineSeen, Elements
  <1>6. SpansSeen = UNION {Span(i, shape.outline[i + 1][1]) : i \in 1..outline_len - 1}
    BY <1>2 DEF SpansSeen, outline_len
  <1> QED BY <1>3, <1>5, <1>6 DEF IInv, Accounted, Seen, Whole

(* The tiles of a polygon do not depend on where its batches end           *)
(* (fill_poly_advance), for every outline in order, every set of tiles the *)
(* hit test finds inside and every batch size but zero.                    *)
THEOREM FillIsWhole == Spec => []FillsWhole
  <1>1. Init => IInv
    BY InitIInv
  <1>2. IInv /\ [Next]_vars => IInv'
    BY NextIInv
  <1>3. IInv => FillsWhole
    BY SeenAtEnd
  <1> QED BY <1>1, <1>2, <1>3, PTL DEF Spec

-----------------------------------------------------------------------------
(* A batch has room for the next tile, or is about to be returned; and a   *)
(* call that has listed nothing yet has some of the outline left to list.  *)
BatchFits ==
  /\ running => Len(filled) <= max_fills
  /\ running /\ inner_fill_idx < outline_len - 1 => Len(filled) < max_fills
  /\ running /\ filled = <<>> => outline_idx < outline_len
  /\ ~running /\ ~finished => outline_idx < outline_len

(* The batch at hand lists no tile again, but one the outline passes twice. *)
BatchApart == running => listed \cap Elements(filled) \subseteq Repeated

BatchInv == BatchFits /\ BatchApart

-----------------------------------------------------------------------------
(* The outline of the fill, in its order.                                  *)
LEMMA OutlineOrder ==
  ASSUME TypeOK
  PROVE  /\ outline_len \in Nat \ {0}
         /\ \A i \in 1..outline_len : /\ shape.outline[i] \in Int \X Int
                                      /\ shape.outline[i] = <<shape.outline[i][1], shape.outline[i][2]>>
                                      /\ shape.outline[i][1] \in Int
                                      /\ shape.outline[i][2] \in Int
         /\ \A i, j \in 1..outline_len : i <= j => InOrder(shape.outline[i], shape.outline[j])
         /\ \A t \in shape.inside : t[1] \in Int /\ t[2] \in Int
         /\ inner_fill_idx \in 0..outline_len - 1 /\ outline_idx \in 0..outline_len /\ x \in Nat
         /\ max_fills \in Nat \ {0} /\ filled \in Seq(Int \X Int)
  <1>1. /\ shape \in Shapes
        /\ inner_fill_idx \in 0..outline_len - 1 /\ outline_idx \in 0..outline_len /\ x \in Nat
        /\ max_fills \in Nat \ {0} /\ filled \in Seq(Int \X Int)
    BY MaxFillsAssumption DEF TypeOK
  <1>2. /\ outline_len \in Nat \ {0}
        /\ \A i \in 1..outline_len : /\ shape.outline[i] \in Int \X Int
                                     /\ shape.outline[i][1] \in Int
                                     /\ shape.outline[i][2] \in Int
        /\ shape.inside \subseteq Int \X Int
    BY <1>1, ShapeFacts DEF outline_len
  <1>3. \A i, j \in 1..outline_len : i <= j => InOrder(shape.outline[i], shape.outline[j])
    BY <1>1, ShapesAssumption DEF outline_len
  <1>4. \A t \in Int \X Int : t = <<t[1], t[2]>> /\ t[1] \in Int /\ t[2] \in Int
    OBVIOUS
  <1> QED BY <1>1, <1>2, <1>3, <1>4

(* No span holds a tile of the outline: it lies between neighbours.        *)
LEMMA SpansApart ==
  ASSUME TypeOK, NEW i \in 1..outline_len - 1, NEW k \in 1..outline_len
  PROVE  shape.outline[k] \notin Span(i, shape.outline[i + 1][1])
  <1> SUFFICES ASSUME shape.outline[k] \in Span(i, shape.outline[i + 1][1]) PROVE FALSE
    OBVIOUS
  <1> DEFINE a == shape.outline[i]
             b == shape.outline[i + 1]
             t == shape.outline[k]
  <1>1. a[2] = b[2] /\ t[2] = a[2] /\ a[1] < t[1] /\ t[1] < b[1]
    BY DEF Span
  <1>2. i \in 1..outline_len /\ i + 1 \in 1..outline_len /\ (k <= i \/ i + 1 <= k)
    BY OutlineOrder
  <1>3. a[1] \in Int /\ a[2] \in Int /\ b[1] \in Int /\ b[2] \in Int /\ t[1] \in Int /\ t[2] \in Int
    BY <1>2, OutlineOrder
  <1>4. CASE k <= i
    <2>1. InOrder(t, a)
      BY <1>2, <1>4, OutlineOrder
    <2> HIDE DEF a, b, t
    <2> QED BY <1>1, <1>3, <2>1 DEF InOrder
  <1>5. CASE i + 1 <= k
    <2>1. InOrder(b, t)
      BY <1>2, <1>5, OutlineOrder
    <2> HIDE DEF a, b, t
    <2> QED BY <1>1, <1>3, <2>1 DEF InOrder
  <1> QED BY <1>2, <1>4, <1>5

(* The tile of a span the fill looks at has not been seen.                 *)
LEMMA HereIsNew ==
  ASSUME IInv, FillingInner, InSpan
  PROVE  <<column, p[2]>> \notin Found
  <1> DEFINE here == <<column, p[2]>>
  <1>1. TypeOK /\ Order /\ Found = Seen
    BY DEF IInv, Accounted
  <1>2. inner_fill_idx < outline_len - 1
    BY DEF FillingInner
  <1>3. inner_fill_idx + 1 \in 1..outline_len /\ p = shape.outline[inner_fill_idx + 1]
    BY <1>1, <1>2, OutlineOrder DEF p
  <1>4. p[1] \in Int /\ p[2] \in Int /\ column \in Int /\ p[1] < column
    <2>1. p[1] \in Int /\ p[2] \in Int /\ x \in Nat
      BY <1>1, <1>3, OutlineOrder
    <2> QED BY <2>1 DEF column
  <1>5. here \notin OutlineSeen
    <2>1. outline_idx = 0
      BY <1>1, <1>2, OutlineOrder DEF Order
    <2> QED BY <2>1 DEF OutlineSeen
  <1>6. here \notin SpanSeen
    <2>1. ~(here[1] < column)
      BY <1>4
    <2> HIDE DEF here
    <2> QED BY <1>2, <2>1 DEF SpanSeen, Span
  <1>7. here \notin SpansSeen
    <2> SUFFICES ASSUME NEW i \in 1..inner_fill_idx, here \in Span(i, shape.outline[i + 1][1])
                 PROVE  FALSE
      BY DEF SpansSeen
    <2> DEFINE b == shape.outline[i + 1]
    <2>1. i + 1 \in 1..outline_len /\ i + 1 <= inner_fill_idx + 1
      BY <1>1, <1>2, OutlineOrder
    <2>2. b[2] = here[2] /\ here[1] < b[1]
      BY DEF Span
    <2>3. InOrder(b, p) /\ b[1] \in Int /\ b[2] \in Int
      BY <1>1, <1>3, <2>1, OutlineOrder
    <2>4. b[2] = p[2] /\ column < b[1]
      BY <2>2
    <2> HIDE DEF b
    <2> QED BY <1>4, <2>3, <2>4 DEF InOrder
  <1> QED BY <1>1, <1>5, <1>6, <1>7 DEF Seen

(* The tile of the outline to list next has been listed only if it is the  *)
(* one before it.                                                          *)
LEMMA TileIsNew ==
  ASSUME IInv, FillingOutline, outline_idx < outline_len,
         shape.outline[outline_idx + 1] \in Found
  PROVE  shape.outline[outline_idx + 1] \in Repeated
  <1> DEFINE k == outline_idx + 1
             t == shape.outline[k]
  <1>1. TypeOK /\ Found = Seen
    BY DEF IInv, Accounted
  <1>2. k \in 1..outline_len /\ k - 1 = outline_idx /\ inner_fill_idx = outline_len - 1
    <2>1. /\ outline_len \in Nat \ {0} /\ outline_idx \in 0..outline_len
          /\ inner_fill_idx \in 0..outline_len - 1
      BY <1>1, OutlineOrder
    <2>2. inner_fill_idx >= outline_len - 1
      BY DEF FillingOutline
    <2> QED BY <2>1, <2>2
  <1>3. t \notin SpanSeen
    BY <1>2 DEF SpanSeen
  <1>4. t \notin SpansSeen
    BY <1>1, <1>2, SpansApart DEF SpansSeen
  <1>5. PICK i \in 1..outline_idx : t = shape.outline[i]
    BY <1>1, <1>3, <1>4 DEF Seen, OutlineSeen
  <1>6. i \in 1..outline_len /\ k - 1 \in 1..outline_len /\ i <= k - 1 /\ k - 1 <= k
        /\ k - 1 \in 1..outline_len - 1 /\ (k - 1) + 1 = k
    BY <1>1, <1>2, OutlineOrder
  <1> DEFINE b == shape.outline[k - 1]
  <1>7. /\ InOrder(t, b) /\ InOrder(b, t)
        /\ t = <<t[1], t[2]>> /\ b = <<b[1], b[2]>>
        /\ t[1] \in Int /\ t[2] \in Int /\ b[1] \in Int /\ b[2] \in Int
    BY <1>1, <1>2, <1>5, <1>6, OutlineOrder
  <1>8. b = t
    <2> HIDE DEF b, t
    <2>1. t[1] = b[1] /\ t[2] = b[2]
      BY <1>7 DEF InOrder
    <2> QED BY <1>7, <2>1
  <1> HIDE DEF k
  <1>9. shape.outline[k - 1] = shape.outline[(k - 1) + 1]
    BY <1>6, <1>8
  <1>10. shape.outline[k - 1] \in Repeated
    BY <1>6, <1>9 DEF Repeated
  <1> QED BY <1>8, <1>10 DEF k

LEMMA BatchStep ==
  ASSUME IInv, BatchInv, [Next]_vars
  PROVE  BatchInv' /\ [GoodBatch]_vars
  <1>0. /\ TypeOK /\ Order /\ BatchFits /\ BatchApart
        /\ outline_len \in Nat \ {0} /\ inner_fill_idx \in 0..outline_len - 1
        /\ outline_idx \in 0..outline_len
        /\ max_fills \in Nat \ {0} /\ filled \in Seq(Int \X Int)
    BY OutlineOrder DEF IInv, BatchInv
  <1>1. Len(filled) \in Nat /\ (filled = <<>> <=> Len(filled) = 0) /\ listed \subseteq Found
    BY <1>0 DEF Found
  <1>2. CASE Advance
    <2>1. /\ ~running /\ ~finished /\ running' /\ filled' = <<>>
          /\ outline_len' = outline_len /\ max_fills' = max_fills
          /\ outline_idx' = outline_idx /\ inner_fill_idx' = inner_fill_idx
      BY <1>2 DEF Advance, cursors, outline_len
    <2>2. Len(filled') = 0 /\ Elements(filled') = {}
      BY <2>1 DEF Elements
    <2>3. BatchFits'
      BY <1>0, <2>1, <2>2 DEF BatchFits
    <2>4. BatchApart'
      BY <2>2 DEF BatchApart, Elements
    <2> QED BY <2>1, <2>3, <2>4 DEF BatchInv, GoodBatch
  <1>3. CASE InnerTile
    <2> DEFINE here == <<column, p[2]>>
    <2>1. /\ FillingInner /\ InSpan /\ running /\ inner_fill_idx < outline_len - 1
          /\ shape' = shape /\ outline_len' = outline_len /\ max_fills' = max_fills
          /\ outline_idx' = outline_idx /\ inner_fill_idx' = inner_fill_idx
          /\ filled' = WithTile
          /\ \/ Len(WithTile) >= max_fills /\ ~running'
             \/ ~(Len(WithTile) >= max_fills) /\ running' /\ listed' = listed
      BY <1>3 DEF InnerTile, FillingInner, Return, outline_len
    <2>2. outline_idx < outline_len
      BY <1>0, <2>1 DEF Order
    <2>3. here \in Int \X Int
      <3>1. inner_fill_idx + 1 \in 1..outline_len /\ x \in Nat
        BY <1>0, OutlineOrder
      <3>2. p[1] \in Int /\ p[2] \in Int
        BY <1>0, <3>1, OutlineOrder DEF p
      <3>3. column \in Int
        BY <3>1, <3>2 DEF column
      <3> QED BY <3>2, <3>3
    <2>4. /\ Len(WithTile) \in Nat /\ Len(WithTile) <= Len(filled) + 1
          /\ Elements(WithTile) \subseteq Elements(filled) \cup {here}
      <3>1. WithTile = Append(filled, here) \/ WithTile = filled
        BY DEF WithTile
      <3>2. Len(Append(filled, here)) = Len(filled) + 1
            /\ Elements(Append(filled, here)) = Elements(filled) \cup {here}
        BY <1>0, <2>3, AppendElements
      <3> HIDE DEF here
      <3>3. CASE WithTile = Append(filled, here)
        <4>1. Len(WithTile) = Len(filled) + 1 /\ Elements(WithTile) = Elements(filled) \cup {here}
          BY <3>2, <3>3
        <4> QED BY <1>1, <4>1
      <3>4. CASE WithTile = filled
        BY <1>1, <3>4
      <3> QED BY <3>1, <3>3, <3>4
    <2>5. here \notin listed
      BY <1>1, <2>1, HereIsNew
    <2>6. listed \cap Elements(WithTile) \subseteq Repeated
      <3> HIDE DEF here
      <3> QED BY <1>0, <2>1, <2>4, <2>5 DEF BatchApart
    <2>7. Len(WithTile) <= max_fills
      BY <1>0, <1>1, <2>1, <2>4 DEF BatchFits
    <2>8. BatchFits'
      <3>1. running' => Len(WithTile) < max_fills
        BY <1>0, <2>1, <2>4
      <3> QED BY <2>1, <2>2, <2>7, <3>1 DEF BatchFits
    <2>9. Elements(filled)' = Elements(WithTile) /\ Repeated' = Repeated
      BY <2>1 DEF Elements, Repeated
    <2>10. BatchApart'
      BY <2>1, <2>6, <2>9 DEF BatchApart
    <2>11. GoodBatch
      <3>1. Len(WithTile) >= max_fills => Len(WithTile) \in 1..max_fills
        BY <1>0, <2>4, <2>7
      <3> QED BY <2>1, <2>6, <3>1 DEF GoodBatch
    <2> QED BY <2>8, <2>10, <2>11 DEF BatchInv
  <1>4. CASE NextLine
    <2>1. /\ running /\ running' /\ inner_fill_idx < outline_len - 1
          /\ shape' = shape /\ outline_len' = outline_len /\ max_fills' = max_fills
          /\ outline_idx' = outline_idx /\ filled' = filled /\ listed' = listed
      BY <1>4 DEF NextLine, FillingInner, outline_len
    <2>2. BatchFits'
      BY <1>0, <1>1, <2>1 DEF BatchFits
    <2>3. BatchApart'
      BY <1>0, <2>1 DEF BatchApart, Elements, Repeated
    <2> QED BY <2>1, <2>2, <2>3 DEF BatchInv, GoodBatch
  <1>5. CASE OutlineTile
    <2> DEFINE tile == shape.outline[outline_idx + 1]
    <2>1. /\ FillingOutline /\ running /\ running' /\ ~(inner_fill_idx < outline_len - 1)
          /\ Len(filled) < max_fills /\ outline_idx < outline_len
          /\ shape' = shape /\ outline_len' = outline_len /\ max_fills' = max_fills
          /\ inner_fill_idx' = inner_fill_idx
          /\ filled' = Append(filled, tile) /\ listed' = listed
      <3>1. inner_fill_idx >= outline_len - 1 => ~(inner_fill_idx < outline_len - 1)
        BY <1>0
      <3> QED BY <1>5, <3>1 DEF OutlineTile, FillingOutline, RoomAndOutline, outline_len
    <2>2. tile \in Int \X Int
      <3>1. outline_idx + 1 \in 1..outline_len
        BY <1>0, <2>1
      <3> QED BY <1>0, <3>1, OutlineOrder
    <2>3. /\ Len(filled') = Len(filled) + 1 /\ filled' # <<>>
          /\ Elements(filled)' = Elements(filled) \cup {tile}
      <3>1. Elements(Append(filled, tile)) = Elements(filled) \cup {tile}
            /\ Len(Append(filled, tile)) = Len(filled) + 1 /\ Append(filled, tile) # <<>>
        BY <1>0, <2>2, AppendElements
      <3> QED BY <2>1, <3>1 DEF Elements
    <2>4. BatchFits'
      BY <1>0, <1>1, <2>1, <2>3 DEF BatchFits
    <2>5. tile \in listed => tile \in Repeated
      BY <1>1, <2>1, TileIsNew DEF IInv
    <2>6. Repeated' = Repeated
      BY <2>1 DEF Repeated
    <2>7. BatchApart'
      <3> HIDE DEF tile
      <3> QED BY <1>0, <2>1, <2>3, <2>5, <2>6 DEF BatchApart
    <2> QED BY <2>1, <2>4, <2>7 DEF BatchInv, GoodBatch
  <1>6. CASE EndAdvance
    <2>1. /\ running /\ running' = FALSE /\ filled' = filled
          /\ outline_len' = outline_len /\ outline_idx' = outline_idx
          /\ finished' <=> outline_idx >= outline_len
          /\ ~(Len(filled) < max_fills /\ outline_idx < outline_len)
      BY <1>6 DEF EndAdvance, FillingOutline, RoomAndOutline, Return, cursors, outline_len
    <2>2. BatchFits'
      BY <1>0, <2>1 DEF BatchFits
    <2>3. BatchApart'
      BY <2>1 DEF BatchApart
    <2>4. Len(filled) \in 1..max_fills
      BY <1>0, <1>1, <2>1 DEF BatchFits
    <2>5. GoodBatch
      BY <1>0, <2>1, <2>4 DEF BatchApart, GoodBatch
    <2> QED BY <2>2, <2>3, <2>5 DEF BatchInv
  <1>7. CASE UNCHANGED vars
    BY <1>0, <1>7 DEF vars, cursors, BatchInv, BatchFits, BatchApart, Elements, Repeated, outline_len
  <1> QED BY <1>2, <1>3, <1>4, <1>5, <1>6, <1>7 DEF Next

(* A call of fill_poly_advance returns at least one tile and at most       *)
(* max_fills, and no tile an earlier call has returned, but one the        *)
(* outline passes twice: for every outline in the order of line_cmp, every *)
(* set of tiles the hit test finds inside and every batch size but zero.   *)
THEOREM BatchesAreGood == Spec => GoodBatches
  <1>1. Init => IInv
    BY InitIInv
  <1>2. Init => BatchInv
    <2> SUFFICES ASSUME Init PROVE BatchInv
      OBVIOUS
    <2>1. outline_len \in Nat \ {0}
      BY InitIInv, OutlineOrder DEF IInv
    <2> QED BY <2>1 DEF Init, BatchInv, BatchFits, BatchApart
  <1>3. IInv /\ [Next]_vars => IInv'
    BY NextIInv
  <1>4. IInv /\ BatchInv /\ [Next]_vars => BatchInv' /\ [GoodBatch]_vars
    BY BatchStep
  <1> QED BY <1>1, <1>2, <1>3, <1>4, PTL DEF Spec, GoodBatches
=============================================================================
