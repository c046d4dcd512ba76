---------------------------- MODULE IntIdRanges ----------------------------
(***************************************************************************)
(* All ranges of interrupt identifiers, extended ones and LPIs included,   *)
(* with the constructors of IntId and the classification that its Debug    *)
(* output shows.                                                           *)
(*                                                                         *)
(* The ranges above the special identifiers are placed by their distance   *)
(* from them: with SPECIAL_START = 1020 they are those of the program.     *)
(***************************************************************************)
EXTENDS IntId

SGI_COUNT == PPI_START
PPI_COUNT == SPI_START - PPI_START
SPECIAL_END == SPECIAL_START + 4
EPPI_START == SPECIAL_END + 32
EPPI_END == EPPI_START + 64
ESPI_START == EPPI_END + 2976
ESPI_END == ESPI_START + 1024
LPI_START == ESPI_END + 3072
MAX_EPPI_COUNT == EPPI_END - EPPI_START
MAX_ESPI_COUNT == ESPI_END - ESPI_START

(* The constructors, each with the numbers its assertion admits.           *)
sgi(n) == n
ppi(n) == PPI_START + n
spi(n) == SPI_START + n
eppi(n) == EPPI_START + n
espi(n) == ESPI_START + n
lpi(n) == LPI_START + n

is_spi(i) == SPI_START <= i /\ i < SPECIAL_START

private == {sgi(n) : n \in 0 .. SGI_COUNT - 1} \cup {ppi(n) : n \in 0 .. PPI_COUNT - 1}
spis == {spi(n) : n \in 0 .. MAX_SPI_COUNT - 1}

(* What Debug calls an identifier, and the number it shows with it.        *)
Kind(i) ==
  IF i < PPI_START THEN "SGI"
  ELSE IF i < SPI_START THEN "PPI"
  ELSE IF i < SPECIAL_START THEN "SPI"
  ELSE IF i < SPECIAL_END THEN "Special"
  ELSE IF i < EPPI_START THEN "Reserved"
  ELSE IF i < EPPI_END THEN "EPPI"
  ELSE IF i < ESPI_START THEN "Reserved"
  ELSE IF i < ESPI_END THEN "ESPI"
  ELSE IF i < LPI_START THEN "Reserved"
  ELSE "LPI"

FirstOf ==
  [SGI |-> 0, PPI |-> PPI_START, SPI |-> SPI_START, Special |-> 0, Reserved |-> 0,
   EPPI |-> EPPI_START, ESPI |-> ESPI_START, LPI |-> LPI_START]

Shown(i) == i - FirstOf[Kind(i)]

(* Typer::max_espi, from the five bits of ESPI_range.                      *)
max_espi(espi_range) == espi(32 * espi_range + 31)
=============================================================================
