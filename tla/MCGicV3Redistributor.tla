------------------------ MODULE MCGicV3Redistributor ------------------------
(* Three redistributors: two behind one GCI, so that one is the last man,  *)
(* and one alone behind another.                                           *)
EXTENDS GicV3Redistributor

MCGciOf == [c \in Cpu |-> IF c < 2 THEN "g0" ELSE "g1"]
=============================================================================
