---------------------------- MODULE GicV3Frames ----------------------------
(***************************************************************************)
(* The register frames of a GICv3 and how the driver addresses them: one   *)
(* distributor (GICD) for the shared interrupts and one redistributor      *)
(* (GICR) per core for that core's SGIs and PPIs.                          *)
(*                                                                         *)
(* A register file with one bit per interrupt (IGROUPR, ISENABLER, ...) is *)
(* the set of identifiers whose bit is set.  A 32-bit register of the file *)
(* is one word of it; the width is SPI_START because the private           *)
(* interrupts fill exactly the word the redistributor has for them.        *)
(***************************************************************************)
EXTENDS IntId, GicV3Cores

CONSTANT ItLines     \* GICD_TYPER.ITLinesNumber, what Typer::num_spis reads

ASSUME FramesAssumption == ItLines \in Nat

RegBits == SPI_START

(* Frames 0 .. CpuCount-1 are the redistributors, the last is the GICD.    *)
Gicd == CpuCount

Frame == Cpu \cup {Gicd}

(* Every bit position of the implemented registers, existing SPI or not.   *)
Ids == 0 .. RegBits * (ItLines + 1) - 1

PrivateId == 0 .. SPI_START - 1

num_spis ==
  IF RegBits * ItLines < MAX_SPI_COUNT THEN RegBits * ItLines ELSE MAX_SPI_COUNT

(* The bound of the loops over the SPIs.                                   *)
max_reg == num_spis + SPI_START

SpiId == SPI_START .. max_reg - 1

(* An interrupt as the hardware knows it: a private identifier is a        *)
(* different interrupt on every core.                                      *)
Line == (Cpu \X PrivateId) \cup ({Gicd} \X SpiId)

(* The frame through which the driver configures interrupt i, for core c.  *)
FrameOf(i, c) == IF is_private(i) THEN c ELSE Gicd

(* The register that holds the bit of identifier i.                        *)
WordOf(i) == {j \in Ids : j \div RegBits = i \div RegBits}

(* modify_bit reads the register, changes one bit and writes it back.      *)
modify_bit(file, i, set) ==
  LET old_value == file \cap WordOf(i)
      new_value == IF set THEN old_value \cup {i} ELSE old_value \ {i}
  IN  (file \ WordOf(i)) \cup new_value

(* Slips of the next operator: the last word whole, and its mask too short.*)
SpiBits_all_ones(k) == k .. k + RegBits - 1
SpiBits_one_short(k) == k .. max_reg - 2

(* What a loop over the SPIs writes to the register whose first bit is k.  *)
SpiBits(k) ==
  IF max_reg - k >= RegBits THEN k .. k + RegBits - 1 ELSE k .. max_reg - 1

(* The interrupts a client may name in a call: implemented ones.           *)
IntIds == PrivateId \cup SpiId
=============================================================================
