---------------------------- MODULE MCWriteQueue ----------------------------
(* Instances of WriteQueue for TLC: two of the writes carry one image.      *)
EXTENDS WriteQueue

MCImageHash == [w \in Writes |-> IF w = 1 THEN 2 ELSE w]
=============================================================================
