------------------------------- MODULE IntId -------------------------------
(***************************************************************************)
(* Interrupt identifiers of the Arm GIC, as src/src/lib.rs classifies      *)
(* them.  The boundaries of the ranges are parameters so that a small      *)
(* instance keeps every case; the program has PPI_START = 16,              *)
(* SPI_START = 32 and SPECIAL_START = 1020.                                *)
(***************************************************************************)
EXTENDS Integers

CONSTANTS
  PPI_START,      \* the first Private Peripheral Interrupt; SGIs are below it
  SPI_START,      \* the first Shared Peripheral Interrupt
  SPECIAL_START   \* the first special identifier, one past the last SPI

ASSUME IntIdAssumption ==
  /\ PPI_START \in Nat \ {0}
  /\ SPI_START \in Nat
  /\ SPECIAL_START \in Nat
  /\ PPI_START < SPI_START
  /\ SPI_START < SPECIAL_START

MAX_SPI_COUNT == SPECIAL_START - SPI_START

(* The special identifiers the hardware answers with.                      *)
SPECIAL_SECURE == SPECIAL_START
SPECIAL_NONSECURE == SPECIAL_START + 1
SPECIAL_NMI == SPECIAL_START + 2
SPECIAL_NONE == SPECIAL_START + 3

is_sgi(i) == i < PPI_START

is_ppi(i) == PPI_START <= i /\ i < SPI_START

is_private(i) == is_sgi(i) \/ is_ppi(i)
=============================================================================
