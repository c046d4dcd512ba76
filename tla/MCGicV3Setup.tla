---------------------------- MODULE MCGicV3Setup ----------------------------
(* Two cores that come up and use the driver, with two private interrupts  *)
(* each and three SPIs in two words, the second of which is half empty.    *)
EXTENDS GicV3Setup

(* Registers left all clear or all set by whatever ran before the driver.  *)
MCBootRegs ==
  { [f \in Frame |-> {}],
    [f \in Frame |-> IF f = Gicd THEN SpiId ELSE PrivateId] }
=============================================================================
