--------------------------- MODULE MCGicV2Config ---------------------------
(* Two cores with two private interrupts each, and a word of shared ones   *)
(* of which one exists.                                                    *)
EXTENDS GicV2Config
=============================================================================
