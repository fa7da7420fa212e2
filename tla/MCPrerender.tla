---------------------------- MODULE MCPrerender ----------------------------
(* Instances of Prerender for TLC.  Job "a" has two zooms, one of them in   *)
(* two batches; "zooms" has two zooms of a tile each; "b" has one tile, at a *)
(* location of the others; "small" is one batch of two tiles.               *)
EXTENDS Prerender

MCBatches == [j \in Jobs |->
  CASE j = "a" -> << <<<<1>>, <<2>>>>, <<<<3>>>> >>
    [] j = "zooms" -> << <<<<1>>>>, <<<<2>>>> >>
    [] j = "b" -> << <<<<5>>>> >>
    [] j = "small" -> << <<<<1, 2>>>> >>]
MCLocation == [t \in Tiles |-> IF t = 5 THEN 1 ELSE t]
=============================================================================
