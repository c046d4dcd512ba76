-------------------------- MODULE MCGicV2Delivery --------------------------
(* Two cores, an SGI that both may send and a SPI that both may take.      *)
EXTENDS GicV2Delivery
=============================================================================
