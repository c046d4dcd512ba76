-------------------------- MODULE MCGicV3Delivery --------------------------
(* Two cores of one cluster with an SGI that is Secure on one core and in  *)
(* group 0 on the other, and an SPI for the Non-secure world of core 0.    *)
EXTENDS GicV3Delivery

MCRoute == [i \in SpiId |-> 0]

MCGroupOf ==
  [l \in Line |-> IF l[1] = Gicd THEN "Group1NS" ELSE IF l[1] = 0 THEN "Group1S" ELSE "Group0"]

MCAffinityOf == [c \in Cpu |-> [cluster |-> "a", aff0 |-> c]]

(* The Non-secure group is switched while a Secure handler may be at work, *)
(* and group 0 on the core that takes it.                                  *)
MCSwitched == {<<0, "Group1NS">>, <<1, "Group0">>}
=============================================================================
