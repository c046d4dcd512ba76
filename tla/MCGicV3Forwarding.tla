------------------------- MODULE MCGicV3Forwarding -------------------------
(* A small GICv3: two cores, or one, two private interrupts each, and SPIs *)
(* in words of two bits, the last of which is half empty.                  *)
EXTENDS GicV3Forwarding

(* Boot software leaves interrupts disabled, or all of them enabled.       *)
MCBootRegs ==
  { [f \in Frame |-> {}],
    [f \in Frame |-> IF f = Gicd THEN SpiId ELSE PrivateId] }
=============================================================================
