----------------------------- MODULE GicV3Cores -----------------------------
(***************************************************************************)
(* The cores of a system with a GICv3, one redistributor for each, and the *)
(* driver object they share: its calls take &mut self, one at a time.      *)
(***************************************************************************)
EXTENDS Naturals

CONSTANT CpuCount     \* GicV3::cpu_count, the number of cores and redistributors

ASSUME CpuCountAssumption == CpuCount \in Nat \ {0}

Cpu == 0 .. CpuCount - 1

(* No call holds the driver.                                               *)
Idle == [op |-> "idle"]
=============================================================================
