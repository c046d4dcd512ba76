------------------------ MODULE GicAddressing_proofs ------------------------
(***************************************************************************)
(* Theorems that the ranges of identifiers, their constructors and their   *)
(* classification fit together, wherever the ranges begin, that the        *)
(* structs lie where the architecture has the registers, and that a call   *)
(* reaches the registers it should and tells what the chip has, for every  *)
(* identifier, every number of cores and every chip.                       *)
(***************************************************************************)
EXTENDS GicAddressing, FiniteSetTheorems, FunctionTheorems, SequenceTheorems, TLAPS

-----------------------------------------------------------------------------
(***************************************************************************)
(* The ranges of identifiers.                                              *)
(***************************************************************************)

(* Every constructor is undone by the classification, for every number its *)
(* assertion admits: no two constructors make the same identifier, and     *)
(* Debug shows what the identifier was made from (lib.rs:142-175, 213-236).*)
THEOREM ConstructorsAndKindsAgree ==
  ASSUME NEW n \in Nat
  PROVE  /\ n < SGI_COUNT => Kind(sgi(n)) = "SGI" /\ Shown(sgi(n)) = n
         /\ n < PPI_COUNT => Kind(ppi(n)) = "PPI" /\ Shown(ppi(n)) = n
         /\ n < MAX_SPI_COUNT => Kind(spi(n)) = "SPI" /\ Shown(spi(n)) = n
         /\ n < MAX_EPPI_COUNT => Kind(eppi(n)) = "EPPI" /\ Shown(eppi(n)) = n
         /\ n < MAX_ESPI_COUNT => Kind(espi(n)) = "ESPI" /\ Shown(espi(n)) = n
         /\ Kind(lpi(n)) = "LPI" /\ Shown(lpi(n)) = n
<1>1. /\ SPECIAL_END = SPECIAL_START + 4
      /\ EPPI_START = SPECIAL_START + 36
      /\ EPPI_END = SPECIAL_START + 100
      /\ ESPI_START = SPECIAL_START + 3076
      /\ ESPI_END = SPECIAL_START + 4100
      /\ LPI_START = SPECIAL_START + 7172
  BY IntIdAssumption
     DEF SPECIAL_END, EPPI_START, EPPI_END, ESPI_START, ESPI_END, LPI_START
<1>2. n < SGI_COUNT => Kind(sgi(n)) = "SGI" /\ Shown(sgi(n)) = n
  <2> SUFFICES ASSUME n < SGI_COUNT PROVE Kind(sgi(n)) = "SGI" /\ Shown(sgi(n)) = n
    OBVIOUS
  <2>1. Kind(sgi(n)) = "SGI"
    BY <1>1, IntIdAssumption DEF sgi, Kind, SGI_COUNT
  <2>2. FirstOf["SGI"] = 0
    BY DEF FirstOf
  <2> QED
    BY <1>1, <2>1, <2>2, IntIdAssumption DEF sgi, Shown
<1>3. n < PPI_COUNT => Kind(ppi(n)) = "PPI" /\ Shown(ppi(n)) = n
  <2> SUFFICES ASSUME n < PPI_COUNT PROVE Kind(ppi(n)) = "PPI" /\ Shown(ppi(n)) = n
    OBVIOUS
  <2>1. Kind(ppi(n)) = "PPI"
    BY <1>1, IntIdAssumption DEF ppi, Kind, PPI_COUNT
  <2>2. FirstOf["PPI"] = PPI_START
    BY DEF FirstOf
  <2> QED
    BY <1>1, <2>1, <2>2, IntIdAssumption DEF ppi, Shown
<1>4. n < MAX_SPI_COUNT => Kind(spi(n)) = "SPI" /\ Shown(spi(n)) = n
  <2> SUFFICES ASSUME n < MAX_SPI_COUNT PROVE Kind(spi(n)) = "SPI" /\ Shown(spi(n)) = n
    OBVIOUS
  <2>1. Kind(spi(n)) = "SPI"
    BY <1>1, IntIdAssumption DEF spi, Kind, MAX_SPI_COUNT
  <2>2. FirstOf["SPI"] = SPI_START
    BY DEF FirstOf
  <2> QED
    BY <1>1, <2>1, <2>2, IntIdAssumption DEF spi, Shown
<1>5. n < MAX_EPPI_COUNT => Kind(eppi(n)) = "EPPI" /\ Shown(eppi(n)) = n
  <2> SUFFICES ASSUME n < MAX_EPPI_COUNT PROVE Kind(eppi(n)) = "EPPI" /\ Shown(eppi(n)) = n
    OBVIOUS
  <2>1. Kind(eppi(n)) = "EPPI"
    BY <1>1, IntIdAssumption DEF eppi, Kind, MAX_EPPI_COUNT
  <2>2. FirstOf["EPPI"] = EPPI_START
    BY DEF FirstOf
  <2> QED
    BY <1>1, <2>1, <2>2, IntIdAssumption DEF eppi, Shown
<1>6. n < MAX_ESPI_COUNT => Kind(espi(n)) = "ESPI" /\ Shown(espi(n)) = n
  <2> SUFFICES ASSUME n < MAX_ESPI_COUNT PROVE Kind(espi(n)) = "ESPI" /\ Shown(espi(n)) = n
    OBVIOUS
  <2>1. Kind(espi(n)) = "ESPI"
    BY <1>1, IntIdAssumption DEF espi, Kind, MAX_ESPI_COUNT
  <2>2. FirstOf["ESPI"] = ESPI_START
    BY DEF FirstOf
  <2> QED
    BY <1>1, <2>1, <2>2, IntIdAssumption DEF espi, Shown
<1>7. Kind(lpi(n)) = "LPI" /\ Shown(lpi(n)) = n
  <2>1. Kind(lpi(n)) = "LPI"
    BY <1>1, IntIdAssumption DEF lpi, Kind
  <2>2. FirstOf["LPI"] = LPI_START
    BY DEF FirstOf
  <2> QED
    BY <1>1, <2>1, <2>2, IntIdAssumption DEF lpi, Shown
<1> QED
  BY <1>2, <1>3, <1>4, <1>5, <1>6, <1>7

(* The predicates say what Debug says, and the iterators run through       *)
(* exactly the identifiers the predicates accept (lib.rs:177-210).         *)
THEOREM PredicatesAndIteratorsAgree ==
  ASSUME NEW i \in Nat
  PROVE  /\ is_sgi(i) <=> Kind(i) = "SGI"
         /\ is_ppi(i) <=> Kind(i) = "PPI"
         /\ is_spi(i) <=> Kind(i) = "SPI"
         /\ is_private(i) <=> i \in private
         /\ is_spi(i) <=> i \in spis
<1> USE IntIdAssumption
<1>1. /\ is_sgi(i) <=> Kind(i) = "SGI"
      /\ is_ppi(i) <=> Kind(i) = "PPI"
      /\ is_spi(i) <=> Kind(i) = "SPI"
  BY DEF is_sgi, is_ppi, is_spi, Kind
<1>2. is_private(i) <=> i \in private
  <2>1. is_sgi(i) <=> i \in {sgi(n) : n \in 0 .. SGI_COUNT - 1}
    BY DEF is_sgi, sgi, SGI_COUNT
  <2>2. is_ppi(i) <=> \E n \in 0 .. PPI_COUNT - 1 : i = ppi(n)
    <3>1. ASSUME is_ppi(i) PROVE i - PPI_START \in 0 .. PPI_COUNT - 1 /\ i = ppi(i - PPI_START)
      BY <3>1 DEF is_ppi, ppi, PPI_COUNT
    <3> QED
      BY <3>1 DEF is_ppi, ppi, PPI_COUNT
  <2> QED
    BY <2>1, <2>2 DEF is_private, private
<1>3. is_spi(i) <=> i \in spis
  <2>1. ASSUME is_spi(i) PROVE i - SPI_START \in 0 .. MAX_SPI_COUNT - 1 /\ i = spi(i - SPI_START)
    BY <2>1 DEF is_spi, spi, MAX_SPI_COUNT
  <2> QED
    BY <2>1 DEF is_spi, spi, spis, MAX_SPI_COUNT
<1> QED
  BY <1>1, <1>2, <1>3

(* max_espi never fails the assertion of IntId::espi, whatever the field   *)
(* holds (gicv3/registers.rs:216-224).                                     *)
THEOREM MaxEspiExists ==
  ASSUME NEW r \in 0 .. 31
  PROVE  32 * r + 31 < MAX_ESPI_COUNT /\ Kind(max_espi(r)) = "ESPI"
  BY IntIdAssumption
     DEF max_espi, espi, MAX_ESPI_COUNT, Kind, SPECIAL_END, EPPI_START, EPPI_END,
         ESPI_START, ESPI_END, LPI_START

-----------------------------------------------------------------------------
(***************************************************************************)
(* Induction and recursion over the natural numbers.                       *)
(*                                                                         *)
(* The theorems of the library about them take operators as parameters. Both*)
(* follow from the cardinality of finite sets as well.                     *)
(***************************************************************************)

(* Induction: a set with 0 that is closed under the successor has every    *)
(* natural number.  If it lacked n, adding one would map its numbers below *)
(* n injectively to the same without 0, one less.                          *)
LEMMA Induction ==
  ASSUME NEW S, 0 \in S, \A n \in Nat : n \in S => n + 1 \in S
  PROVE  Nat \subseteq S
<1> SUFFICES ASSUME NEW n \in Nat, n \notin S PROVE FALSE
  OBVIOUS
<1> DEFINE T == {m \in 0 .. n : m \in S}
           f == [m \in T |-> m + 1]
<1>1. IsFiniteSet(T) /\ 0 \in T
  <2>1. IsFiniteSet(0 .. n) /\ T \in SUBSET (0 .. n)
    BY FS_Interval
  <2> QED
    BY <2>1, FS_Subset
<1>2. f \in Injection(T, T \ {0})
  <2>1. \A m \in T : m + 1 \in T \ {0}
    OBVIOUS
  <2> QED
    BY <2>1 DEF Injection, IsInjective
<1> HIDE DEF T, f
<1>3. IsFiniteSet(T \ {0}) /\ Cardinality(T \ {0}) = Cardinality(T) - 1
  BY <1>1, FS_RemoveElement
<1>4. Cardinality(T) <= Cardinality(T \ {0})
  BY <1>2, <1>3, FS_Injection
<1> QED
  BY <1>1, <1>3, <1>4, FS_CardinalityType

(* f is what the recursion from base by step makes on 0 .. n.              *)
Recursive(f, base, step, n) ==
  f[0] = base /\ \A k \in 1 .. n : f[k] = step[<<k, f[k - 1]>>]

(* A recursion over 0 .. n defines a function.                             *)
LEMMA Recursion ==
  ASSUME NEW V, NEW base \in V, NEW step \in [Nat \X V -> V], NEW n \in Nat
  PROVE  \E f \in [0 .. n -> V] : Recursive(f, base, step, n)
<1> DEFINE S == {m \in Nat : \E f \in [0 .. m -> V] : Recursive(f, base, step, m)}
<1>1. 0 \in S
  <2> DEFINE f == [k \in 0 .. 0 |-> base]
  <2>1. f \in [0 .. 0 -> V] /\ Recursive(f, base, step, 0)
    BY DEF Recursive
  <2> QED
    BY <2>1
<1>2. ASSUME NEW m \in Nat, m \in S PROVE m + 1 \in S
  <2>1. PICK f \in [0 .. m -> V] : Recursive(f, base, step, m)
    BY <1>2
  <2> DEFINE g == [k \in 0 .. m + 1 |-> IF k = m + 1 THEN step[<<k, f[m]>>] ELSE f[k]]
  <2>2. \A k \in 0 .. m : g[k] = f[k]
    OBVIOUS
  <2>3. g[m + 1] = step[<<m + 1, f[m]>>] /\ g \in [0 .. m + 1 -> V]
    OBVIOUS
  <2> HIDE DEF g
  <2>4. ASSUME NEW k \in 1 .. m + 1 PROVE g[k] = step[<<k, g[k - 1]>>]
    <3>1. k - 1 \in 0 .. m /\ (k = m + 1 => k - 1 = m) /\ (k # m + 1 => k \in 1 .. m /\ k \in 0 .. m)
      OBVIOUS
    <3> QED
      BY <2>1, <2>2, <2>3, <3>1 DEF Recursive
  <2>5. g[0] = base
    BY <2>1, <2>2 DEF Recursive
  <2>6. Recursive(g, base, step, m + 1)
    BY <2>4, <2>5 DEF Recursive
  <2> QED
    BY <2>3, <2>6
<1> HIDE DEF S
<1>3. Nat \subseteq S
  BY <1>1, <1>2, Induction
<1> QED
  BY <1>3 DEF S

-----------------------------------------------------------------------------
(***************************************************************************)
(* The bits of a number and the fields of a register.                      *)
(***************************************************************************)

(* The halves of a number.                                                 *)
LEMMA HalvedDef ==
  ASSUME NEW n \in Nat
  PROVE  /\ Halved(n) \in [0 .. 16 -> Nat]
         /\ Halved(n)[0] = n
         /\ \A k \in 1 .. 16 : Halved(n)[k] = Halved(n)[k - 1] \div 2
<1> DEFINE step == [p \in Nat \X Nat |-> p[2] \div 2]
<1>1. step \in [Nat \X Nat -> Nat]
  OBVIOUS
<1> HIDE DEF step
<1>2. PICK f \in [0 .. 16 -> Nat] : Recursive(f, n, step, 16)
  BY <1>1, Recursion
<1>3. \A k \in 1 .. 16 : f[k] = f[k - 1] \div 2
  BY <1>2 DEF Recursive, step
<1>4. f = [k \in 0 .. 16 |-> IF k = 0 THEN n ELSE f[k - 1] \div 2]
  BY <1>2, <1>3 DEF Recursive
<1>5. Halved(n) = [k \in 0 .. 16 |-> IF k = 0 THEN n ELSE Halved(n)[k - 1] \div 2]
  BY <1>4 DEF Halved
<1> QED
  BY <1>5

(* A number below a power of two has no halves from that power on.         *)
LEMMA HalvesEnd ==
  ASSUME NEW n \in Nat
  PROVE  /\ n < 8 => Halved(n)[3] = 0
         /\ n < 32 => Halved(n)[5] = 0
         /\ n < 256 => Halved(n)[8] = 0
         /\ n < 65536 => Halved(n)[16] = 0
<1> DEFINE h == Halved(n)
<1>1. h \in [0 .. 16 -> Nat] /\ h[0] = n /\ \A k \in 1 .. 16 : h[k] = h[k - 1] \div 2
  BY HalvedDef
<1> HIDE DEF h
<1>2. ASSUME NEW k \in 0 .. 15, NEW b \in Nat, h[k] < 2 * b PROVE h[k + 1] < b
  <2>1. k + 1 \in 1 .. 16 /\ (k + 1) - 1 = k /\ h[k] \in Nat
    BY <1>1
  <2>2. h[k + 1] = h[k] \div 2
    BY <1>1, <2>1
  <2> QED
    BY <1>2, <2>1, <2>2
<1>3. /\ h[15] < 2 => h[16] < 1
      /\ h[14] < 4 => h[15] < 2
      /\ h[13] < 8 => h[14] < 4
      /\ h[12] < 16 => h[13] < 8
      /\ h[11] < 32 => h[12] < 16
      /\ h[10] < 64 => h[11] < 32
      /\ h[9] < 128 => h[10] < 64
      /\ h[8] < 256 => h[9] < 128
  BY <1>2
<1>4. /\ h[7] < 512 => h[8] < 256
      /\ h[6] < 1024 => h[7] < 512
      /\ h[5] < 2048 => h[6] < 1024
      /\ h[4] < 4096 => h[5] < 2048
      /\ h[3] < 8192 => h[4] < 4096
      /\ h[2] < 16384 => h[3] < 8192
      /\ h[1] < 32768 => h[2] < 16384
      /\ h[0] < 65536 => h[1] < 32768
  BY <1>2
<1>5. /\ h[7] < 2 => h[8] < 1
      /\ h[6] < 4 => h[7] < 2
      /\ h[5] < 8 => h[6] < 4
      /\ h[4] < 16 => h[5] < 8
      /\ h[3] < 32 => h[4] < 16
      /\ h[2] < 64 => h[3] < 32
      /\ h[1] < 128 => h[2] < 64
      /\ h[0] < 256 => h[1] < 128
  BY <1>2
<1>6. /\ h[4] < 2 => h[5] < 1
      /\ h[3] < 4 => h[4] < 2
      /\ h[2] < 8 => h[3] < 4
      /\ h[1] < 16 => h[2] < 8
      /\ h[0] < 32 => h[1] < 16
      /\ h[2] < 2 => h[3] < 1
      /\ h[1] < 4 => h[2] < 2
      /\ h[0] < 8 => h[1] < 4
  BY <1>2
<1>7. h[3] \in Nat /\ h[5] \in Nat /\ h[8] \in Nat /\ h[16] \in Nat
  BY <1>1
<1> QED
  BY <1>1, <1>3, <1>4, <1>5, <1>6, <1>7 DEF h

(* Bits of the field of w bits from bit lo.                                *)
Within(bits, lo, w) == \A b \in bits : b \in Nat /\ lo <= b /\ b < lo + w

(* The bits of a number whose w-th half is zero fit into w bits, and are   *)
(* the parities of its halves.                                             *)
LEMMA BitsOf ==
  ASSUME NEW n \in Nat, NEW lo \in Nat, NEW w \in 0 .. 16, Halved(n)[w] = 0
  PROVE  /\ Within(AsBits(n, lo), lo, w)
         /\ \A j \in 0 .. w - 1 : lo + j \in AsBits(n, lo) <=> Halved(n)[j] % 2 = 1
<1> DEFINE h == Halved(n)
<1>1. h \in [0 .. 16 -> Nat] /\ \A k \in 1 .. 16 : h[k] = h[k - 1] \div 2
  BY HalvedDef
<1>2. AsBits(n, lo) = {lo + k : k \in {j \in 0 .. 15 : h[j] % 2 = 1}}
  BY DEF AsBits
<1>0. h[w] = 0
  OBVIOUS
<1> HIDE DEF h
<1>3. \A k \in 0 .. 16 : k >= w => h[k] = 0
  <2> DEFINE S == {m \in Nat : w + m <= 16 => h[w + m] = 0}
  <2>1. 0 \in S
    BY <1>0
  <2>2. ASSUME NEW m \in Nat, m \in S PROVE m + 1 \in S
    <3>1. SUFFICES ASSUME w + (m + 1) <= 16 PROVE h[w + (m + 1)] = 0
      OBVIOUS
    <3>2. h[w + m] = 0 /\ w + (m + 1) \in 1 .. 16 /\ (w + (m + 1)) - 1 = w + m
      BY <2>2, <3>1
    <3> QED
      BY <1>1, <3>2
  <2> HIDE DEF S
  <2>3. Nat \subseteq S
    BY <2>1, <2>2, Induction
  <2>4. ASSUME NEW k \in 0 .. 16, k >= w PROVE h[k] = 0
    <3>1. k - w \in S /\ w + (k - w) = k
      BY <2>3, <2>4
    <3> QED
      BY <3>1 DEF S
  <2> QED
    BY <2>4
<1>4. \A k \in 0 .. 15 : h[k] % 2 = 1 => k \in 0 .. w - 1
  BY <1>3
<1>5. Within(AsBits(n, lo), lo, w)
  BY <1>2, <1>4 DEF Within
<1>6. ASSUME NEW j \in 0 .. w - 1 PROVE lo + j \in AsBits(n, lo) <=> h[j] % 2 = 1
  BY <1>2
<1> QED
  BY <1>5, <1>6 DEF h

(* A field that holds the bits of a number is that number.                 *)
LEMMA FieldIs ==
  ASSUME NEW n \in Nat, NEW lo \in Nat, NEW w \in 0 .. 16, Halved(n)[w] = 0,
         NEW v, \A j \in 0 .. w - 1 : lo + j \in v <=> lo + j \in AsBits(n, lo)
  PROVE  BitField(v, lo, w) = n
<1> DEFINE bit(k) == IF lo + w - k \in v THEN 1 ELSE 0
           step == [p \in Nat \X Nat |-> 2 * p[2] + bit(p[1])]
           value == CHOOSE f : f = [k \in 0 .. w |-> IF k = 0 THEN 0 ELSE 2 * f[k - 1] + bit(k)]
<1>0. \A k : bit(k) \in {0, 1}
  OBVIOUS
<1> HIDE DEF bit
<1>1. step \in [Nat \X Nat -> Nat] /\ w \in Nat
  BY <1>0
<1>2. PICK f \in [0 .. w -> Nat] : Recursive(f, 0, step, w)
  <2> HIDE DEF step
  <2>1. ASSUME NEW base \in Nat PROVE \E f \in [0 .. w -> Nat] : Recursive(f, base, step, w)
    BY <1>1, Recursion
  <2>2. 0 \in Nat
    OBVIOUS
  <2> QED
    BY <2>1, <2>2, Zenon
<1>3. ASSUME NEW k \in 1 .. w PROVE f[k] = 2 * f[k - 1] + bit(k)
  <2>1. k \in Nat /\ k - 1 \in 0 .. w
    OBVIOUS
  <2>2. f[k - 1] \in Nat
    BY <1>2, <2>1
  <2> HIDE DEF step
  <2>3. f[k] = step[<<k, f[k - 1]>>]
    BY <1>2 DEF Recursive
  <2> QED
    BY <2>1, <2>2, <2>3 DEF step
<1>4. f = [k \in 0 .. w |-> IF k = 0 THEN 0 ELSE 2 * f[k - 1] + bit(k)]
  BY <1>2, <1>3 DEF Recursive
<1>5. value = [k \in 0 .. w |-> IF k = 0 THEN 0 ELSE 2 * value[k - 1] + bit(k)]
  BY <1>4
<1>6. BitField(v, lo, w) = value[w]
  BY DEF BitField, bit
<1> HIDE DEF value
<1> DEFINE h == Halved(n)
<1>7. /\ h \in [0 .. 16 -> Nat] /\ h[0] = n /\ \A k \in 1 .. 16 : h[k] = h[k - 1] \div 2
      /\ h[w] = 0 /\ \A j \in 0 .. w - 1 : lo + j \in v <=> h[j] % 2 = 1
  BY HalvedDef, BitsOf
<1> HIDE DEF h
<1> DEFINE S == {k \in Nat : k <= w => value[k] = h[w - k]}
<1>8. 0 \in S
  BY <1>5, <1>7
<1>9. ASSUME NEW k \in Nat, k \in S PROVE k + 1 \in S
  <2>1. SUFFICES ASSUME k + 1 <= w PROVE value[k + 1] = h[w - (k + 1)]
    OBVIOUS
  <2>2. value[k] = h[w - k]
    BY <1>9, <2>1
  <2> DEFINE j == w - (k + 1)
  <2>3. j \in 0 .. w - 1 /\ w - k \in 1 .. 16 /\ (w - k) - 1 = j /\ lo + w - (k + 1) = lo + j
    BY <2>1
  <2>4. h[w - k] = h[j] \div 2 /\ h[j] \in Nat
    <3>1. (w - k) \in 1 .. 16 /\ j \in 0 .. 16
      BY <2>3
    <3> HIDE DEF j
    <3> QED
      BY <1>7, <2>3, <3>1
  <2>5. value[k + 1] = 2 * value[k] + bit(k + 1)
    BY <1>5, <2>1
  <2>6. bit(k + 1) = h[j] % 2
    <3>1. h[j] % 2 \in {0, 1}
      BY <2>4
    <3> QED
      BY <1>7, <2>3, <3>1 DEF bit
  <2> HIDE DEF j, bit
  <2>7. 2 * (h[j] \div 2) + (h[j] % 2) = h[j]
    BY <2>4
  <2> QED
    BY <2>2, <2>4, <2>5, <2>6, <2>7 DEF j
<1> HIDE DEF S
<1>10. Nat \subseteq S
  BY <1>8, <1>9, Induction
<1>11. w \in S /\ w - w = 0
  BY <1>10
<1> QED
  BY <1>6, <1>7, <1>11 DEF S

-----------------------------------------------------------------------------
(***************************************************************************)
(* The identification registers.                                           *)
(***************************************************************************)

(* The number of lines that GICD_TYPER tells, and the blocks of extended   *)
(* interrupts.                                                             *)
EspiBlocks == IF chip.espis = 0 THEN 0 ELSE chip.espis \div 32 - 1
EppiBlocks == chip.eppis \div 32

(* What the fields of a chip can hold.                                     *)
LEMMA ChipCounts ==
  ASSUME chip \in Chip
  PROVE  /\ LegalChip(chip)
         /\ Lines \in 0 .. 31 /\ chip.spis \in Nat
         /\ chip.spis = IF 32 * Lines < MAX_SPI_COUNT THEN 32 * Lines ELSE MAX_SPI_COUNT
         /\ EspiBlocks \in 0 .. 31 /\ (chip.espis # 0 => chip.espis = 32 * EspiBlocks + 32)
         /\ EppiBlocks \in 0 .. 31 /\ chip.eppis = 32 * EppiBlocks
<1>1. LegalChip(chip)
  BY AddressingAssumption
<1>2. MAX_SPI_COUNT = 988
  BY AddressingAssumption, IntIdAssumption DEF MAX_SPI_COUNT
<1>3. Lines \in 0 .. 31 /\ chip.spis \in Nat
      /\ chip.spis = IF 32 * Lines < MAX_SPI_COUNT THEN 32 * Lines ELSE MAX_SPI_COUNT
  <2>1. CASE chip.spis = MAX_SPI_COUNT
    BY <1>2, <2>1 DEF Lines
  <2>2. CASE \E k \in 0 .. 30 : chip.spis = 32 * k
    BY <1>2, <2>2 DEF Lines
  <2> QED
    BY <1>1, <2>1, <2>2 DEF LegalChip
<1>4. EspiBlocks \in 0 .. 31 /\ (chip.espis # 0 => chip.espis = 32 * EspiBlocks + 32)
  <2>1. PICK k \in 0 .. 32 : chip.espis = 32 * k
    BY <1>1 DEF LegalChip
  <2> QED
    BY <2>1 DEF EspiBlocks
<1>5. EppiBlocks \in 0 .. 31 /\ chip.eppis = 32 * EppiBlocks
  BY <1>1 DEF LegalChip, EppiBlocks
<1> QED
  BY <1>1, <1>3, <1>4, <1>5

(* The bits of a small number are within a field of a register.            *)
LEMMA SmallFields ==
  ASSUME NEW n \in Nat, NEW lo \in Nat
  PROVE  /\ n < 8 => Within(AsBits(n, lo), lo, 3)
         /\ n < 32 => Within(AsBits(n, lo), lo, 5)
         /\ n < 256 => Within(AsBits(n, lo), lo, 8)
         /\ n < 65536 => Within(AsBits(n, lo), lo, 16)
<1>1. ASSUME NEW w \in 0 .. 16, Halved(n)[w] = 0 PROVE Within(AsBits(n, lo), lo, w)
  BY <1>1, BitsOf
<1>2. n < 8 => Within(AsBits(n, lo), lo, 3)
  BY <1>1, HalvesEnd
<1>3. n < 32 => Within(AsBits(n, lo), lo, 5)
  BY <1>1, HalvesEnd
<1>4. n < 256 => Within(AsBits(n, lo), lo, 8)
  BY <1>1, HalvesEnd
<1>5. n < 65536 => Within(AsBits(n, lo), lo, 16)
  BY <1>1, HalvesEnd
<1> QED
  BY <1>2, <1>3, <1>4, <1>5

(* Every field of GICD_TYPER holds its count, every flag its feature.      *)
LEMMA TyperFields ==
  ASSUME chip \in Chip
  PROVE  /\ BitField(TyperValue, 0, 5) = Lines
         /\ BitField(TyperValue, 5, 3) = chip.cpus - 1
         /\ BitField(TyperValue, 11, 5) = chip.lpi_field
         /\ BitField(TyperValue, 19, 5) = chip.id_bits - 1
         /\ chip.espis # 0 => BitField(TyperValue, 27, 5) = EspiBlocks
         /\ \A f \in DOMAIN TyperFlag : TyperFlag[f] \in TyperValue <=> f \in Supported
         /\ 25 \in TyperValue <=> "one_of_n_supported" \notin chip.features
<1> DEFINE lines == AsBits(Lines, 0)
           cpus == AsBits(chip.cpus - 1, 5)
           lpis == AsBits(chip.lpi_field, 11)
           ids == AsBits(chip.id_bits - 1, 19)
           espis == IF chip.espis = 0 THEN {} ELSE AsBits(EspiBlocks, 27)
           flags == {TyperFlag[f] : f \in Supported \cap DOMAIN TyperFlag}
           one == IF "one_of_n_supported" \in chip.features THEN {} ELSE {25}
<1>1. TyperValue = lines \cup cpus \cup lpis \cup ids \cup espis \cup flags \cup one
  BY DEF TyperValue, EspiBlocks
<1>2. /\ Lines \in Nat /\ Lines < 32 /\ chip.cpus - 1 \in Nat /\ chip.cpus - 1 < 8
      /\ chip.lpi_field \in Nat /\ chip.lpi_field < 32 /\ chip.id_bits - 1 \in Nat /\ chip.id_bits - 1 < 32
      /\ EspiBlocks \in Nat /\ EspiBlocks < 32
  BY ChipCounts DEF LegalChip
<1>3. /\ Halved(Lines)[5] = 0 /\ Halved(chip.cpus - 1)[3] = 0 /\ Halved(chip.lpi_field)[5] = 0
      /\ Halved(chip.id_bits - 1)[5] = 0 /\ Halved(EspiBlocks)[5] = 0
  BY <1>2, HalvesEnd
<1>4. Within(lines, 0, 5)
  BY <1>2, SmallFields
<1>5. Within(cpus, 5, 3)
  BY <1>2, SmallFields
<1>6. Within(lpis, 11, 5)
  BY <1>2, SmallFields
<1>7. Within(ids, 19, 5)
  BY <1>2, SmallFields
<1>8. Within(espis, 27, 5)
  <2>1. Within(AsBits(EspiBlocks, 27), 27, 5) /\ Within({}, 27, 5)
    BY <1>2, SmallFields DEF Within
  <2> QED
    BY <2>1
<1>9. /\ DOMAIN TyperFlag = {"range_selector_support", "affinity_3_supported", "dvi_supported",
           "lpis_supported", "mpis_supported", "has_security_extension", "nmi_supported",
           "espi_supported"}
      /\ \A f \in DOMAIN TyperFlag : TyperFlag[f] \in {26, 24, 18, 17, 16, 10, 9, 8}
      /\ \A f, g \in DOMAIN TyperFlag : TyperFlag[f] = TyperFlag[g] => f = g
  BY DEF TyperFlag
<1>10. flags \subseteq {26, 24, 18, 17, 16, 10, 9, 8} /\ one \subseteq {25}
  BY <1>9
<1>11. \A f \in DOMAIN TyperFlag : TyperFlag[f] \in flags <=> f \in Supported
  BY <1>9
<1>12. 25 \in one <=> "one_of_n_supported" \notin chip.features
  OBVIOUS
<1> HIDE DEF lines, cpus, lpis, ids, espis, flags, one
<1>13. \A j \in 0 .. 4 : 0 + j \in TyperValue <=> 0 + j \in lines
  BY <1>1, <1>4, <1>5, <1>6, <1>7, <1>8, <1>10 DEF Within
<1>14. \A j \in 0 .. 2 : 5 + j \in TyperValue <=> 5 + j \in cpus
  BY <1>1, <1>4, <1>5, <1>6, <1>7, <1>8, <1>10 DEF Within
<1>15. \A j \in 0 .. 4 : 11 + j \in TyperValue <=> 11 + j \in lpis
  BY <1>1, <1>4, <1>5, <1>6, <1>7, <1>8, <1>10 DEF Within
<1>16. \A j \in 0 .. 4 : 19 + j \in TyperValue <=> 19 + j \in ids
  BY <1>1, <1>4, <1>5, <1>6, <1>7, <1>8, <1>10 DEF Within
<1>17. \A j \in 0 .. 4 : 27 + j \in TyperValue <=> 27 + j \in espis
  BY <1>1, <1>4, <1>5, <1>6, <1>7, <1>8, <1>10 DEF Within
<1>18. \A f \in DOMAIN TyperFlag : TyperFlag[f] \in TyperValue <=> f \in Supported
  <2>1. \A b \in {26, 24, 18, 17, 16, 10, 9, 8} : b \in TyperValue <=> b \in flags
    BY <1>1, <1>4, <1>5, <1>6, <1>7, <1>8, <1>10 DEF Within
  <2> QED
    BY <1>9, <1>11, <2>1
<1>19. 25 \in TyperValue <=> "one_of_n_supported" \notin chip.features
  BY <1>1, <1>4, <1>5, <1>6, <1>7, <1>8, <1>10, <1>12 DEF Within
<1>20. BitField(TyperValue, 0, 5) = Lines
  BY <1>2, <1>3, <1>13, FieldIs DEF lines
<1>21. BitField(TyperValue, 5, 3) = chip.cpus - 1
  BY <1>2, <1>3, <1>14, FieldIs DEF cpus
<1>22. BitField(TyperValue, 11, 5) = chip.lpi_field
  BY <1>2, <1>3, <1>15, FieldIs DEF lpis
<1>23. BitField(TyperValue, 19, 5) = chip.id_bits - 1
  BY <1>2, <1>3, <1>16, FieldIs DEF ids
<1>24. chip.espis # 0 => BitField(TyperValue, 27, 5) = EspiBlocks
  BY <1>2, <1>3, <1>17, FieldIs DEF espis
<1> QED
  BY <1>18, <1>19, <1>20, <1>21, <1>22, <1>23, <1>24

(* Every field of GICR_TYPER holds the number of its core, its affinity    *)
(* and the extended private interrupts of the chip.                        *)
LEMMA GicrTyperFields ==
  ASSUME chip \in Chip, NEW c \in Cpu
  PROVE  /\ BitField(GicrTyperValue(c), 8, 16) = c
         /\ BitField(GicrTyperValue(c), 27, 5) = EppiBlocks
         /\ \A k \in 0 .. 3 : BitField(GicrTyperValue(c), 32 + 8 * k, 8) = AffinityOf[c][k]
<1> DEFINE flags == {GicrTyperFlag[f] : f \in chip.features \cap DOMAIN GicrTyperFlag}
                      \cup (IF chip.vlpis THEN {GicrTyperFlag["virtual_lpis_supported"]} ELSE {})
           number == AsBits(c, 8)
           eppis == AsBits(EppiBlocks, 27)
           affinity(k) == AsBits(AffinityOf[c][k], 32 + 8 * k)
           affinities == UNION {affinity(k) : k \in 0 .. 3}
           value == GicrTyperValue(c)
<1>1. value = flags \cup number \cup eppis \cup affinities
  BY DEF GicrTyperValue, EppiBlocks
<1>2. /\ c \in Nat /\ c < 65536 /\ EppiBlocks \in Nat /\ EppiBlocks < 32
      /\ \A k \in 0 .. 3 : AffinityOf[c][k] \in Nat /\ AffinityOf[c][k] < 256
      /\ \A k \in 0 .. 3 : 32 + 8 * k \in Nat
  <2>1. c \in Nat /\ c < 65536
    BY AddressingAssumption DEF Cpu
  <2>2. AffinityOf[c] \in [0 .. 3 -> 0 .. 255]
    BY AddressingAssumption
  <2>3. EppiBlocks \in Nat /\ EppiBlocks < 32
    BY ChipCounts
  <2>4. \A k \in 0 .. 3 : AffinityOf[c][k] \in Nat /\ AffinityOf[c][k] < 256
    BY <2>2
  <2>5. \A k \in 0 .. 3 : 32 + 8 * k \in Nat
    OBVIOUS
  <2> QED
    BY <2>1, <2>3, <2>4, <2>5
<1>3. Within(number, 8, 16)
  BY <1>2, SmallFields
<1>4. Within(eppis, 27, 5)
  BY <1>2, SmallFields
<1>5. \A k \in 0 .. 3 : Within(affinity(k), 32 + 8 * k, 8)
  BY <1>2, SmallFields
<1>6. \A b \in flags : b \in Nat /\ b < 8
  BY DEF GicrTyperFlag
<1>7. /\ Halved(c)[16] = 0 /\ Halved(EppiBlocks)[5] = 0
      /\ \A k \in 0 .. 3 : Halved(AffinityOf[c][k])[8] = 0
  BY <1>2, HalvesEnd
<1> HIDE DEF flags, number, eppis, affinity, value
<1>8. \A b \in affinities : b \in Nat /\ 32 <= b
  BY <1>5 DEF Within
<1>9. \A k \in 0 .. 3 : \A j \in 0 .. 7 :
        32 + 8 * k + j \in affinities <=> 32 + 8 * k + j \in affinity(k)
  BY <1>5 DEF Within
<1> HIDE DEF affinities
<1>10. \A j \in 0 .. 15 : 8 + j \in value <=> 8 + j \in number
  BY <1>1, <1>3, <1>4, <1>6, <1>8 DEF Within
<1>11. \A j \in 0 .. 4 : 27 + j \in value <=> 27 + j \in eppis
  BY <1>1, <1>3, <1>4, <1>6, <1>8 DEF Within
<1>12. \A k \in 0 .. 3 : \A j \in 0 .. 7 : 32 + 8 * k + j \in value <=> 32 + 8 * k + j \in affinity(k)
  BY <1>1, <1>3, <1>4, <1>6, <1>9 DEF Within
<1>13. BitField(value, 8, 16) = c
  BY <1>2, <1>7, <1>10, FieldIs DEF number
<1>14. BitField(value, 27, 5) = EppiBlocks
  BY <1>2, <1>7, <1>11, FieldIs DEF eppis
<1>15. ASSUME NEW k \in 0 .. 3 PROVE BitField(value, 32 + 8 * k, 8) = AffinityOf[c][k]
  <2> DEFINE lo == 32 + 8 * k
             n == AffinityOf[c][k]
  <2>1. /\ lo \in Nat /\ n \in Nat /\ Halved(n)[8] = 0 /\ 8 \in 0 .. 16
        /\ \A j \in 0 .. 7 : lo + j \in value <=> lo + j \in AsBits(n, lo)
    BY <1>2, <1>7, <1>12 DEF affinity
  <2> HIDE DEF lo, n
  <2>2. BitField(value, lo, 8) = n
    BY <2>1, FieldIs
  <2> QED
    BY <2>2 DEF lo, n
<1> QED
  BY <1>13, <1>14, <1>15 DEF value

(* The number of shared interrupts is told truthfully, up to the last.     *)
LEMMA SpisCounted ==
  ASSUME chip \in Chip PROVE num_spis(TyperValue) = chip.spis
  BY TyperFields, ChipCounts DEF num_spis

(* What typer tells, from the fields.                                      *)
LEMMA TyperTells ==
  ASSUME chip \in Chip, Typer PROVE CountsTold'
<1> DEFINE v == TyperValue
<1>1. /\ chip' = chip /\ call' = [op |-> "typer"]
      /\ result' = IF chip.version = "v2"
           THEN [cpus |-> cpu_count(v), irqs |-> num_irqs(v), lockable |-> lockable_spi_count(v),
                 secure |-> TyperFlag["has_security_extension"] \in v]
           ELSE [cpus |-> num_cpus(v), spis |-> num_spis(v), id_bits |-> id_bits(v),
                 lpis |-> num_lpis(v), last_espi |-> last_espi(v), supports |-> TyperSupports(v)]
  BY DEF Typer, Called
<1>2. Lines' = Lines /\ Supported' = Supported
  BY <1>1 DEF Lines, Supported
<1>3. LegalChip(chip) /\ Lines \in Nat /\ EspiBlocks \in Nat
  BY ChipCounts
<1>4. "has_security_extension" \in DOMAIN TyperFlag
      /\ ("has_security_extension" \in Supported <=> "has_security_extension" \in chip.features)
  BY DEF TyperFlag, Supported
<1> HIDE DEF v
<1>5. CASE chip.version = "v2"
  <2>1. cpu_count(v) = chip.cpus /\ num_irqs(v) = 32 * (Lines + 1) /\ lockable_spi_count(v) = chip.lpi_field
    BY <1>3, TyperFields DEF v, cpu_count, num_irqs, lockable_spi_count, LegalChip
  <2>2. TyperFlag["has_security_extension"] \in v <=> "has_security_extension" \in chip.features
    BY <1>4, TyperFields DEF v
  <2> QED
    BY <1>1, <1>2, <1>5, <2>1, <2>2 DEF CountsTold
<1>6. CASE chip.version # "v2"
  <2>1. num_spis(v) = chip.spis
    BY SpisCounted DEF v
  <2>2. id_bits(v) = chip.id_bits
    BY <1>3, TyperFields DEF v, id_bits, LegalChip
  <2>3. chip.lpis # 0 => num_lpis(v) = chip.lpis
    <3>1. SUFFICES ASSUME chip.lpis # 0 PROVE num_lpis(v) = chip.lpis
      OBVIOUS
    <3>2. BitField(v, 11, 5) = chip.lpi_field /\ chip.lpis \in Nat
      BY <1>3, <3>1, TyperFields DEF v, LegalChip
    <3>3. CASE chip.lpi_field # 0
      BY <1>3, <2>2, <3>1, <3>2, <3>3 DEF num_lpis, LegalChip
    <3>4. CASE chip.lpi_field = 0
      <4>1. chip.lpis = 2 ^ chip.id_bits - 8192 /\ chip.id_bits \in 1 .. 24
        BY <1>3, <3>1, <3>4 DEF LegalChip
      <4>2. \A n \in 1 .. 24 : 2 ^ n \in Nat
        <5>1. /\ 2 ^ 1 \in Nat /\ 2 ^ 2 \in Nat /\ 2 ^ 3 \in Nat /\ 2 ^ 4 \in Nat /\ 2 ^ 5 \in Nat
              /\ 2 ^ 6 \in Nat /\ 2 ^ 7 \in Nat /\ 2 ^ 8 \in Nat /\ 2 ^ 9 \in Nat /\ 2 ^ 10 \in Nat
              /\ 2 ^ 11 \in Nat /\ 2 ^ 12 \in Nat /\ 2 ^ 13 \in Nat /\ 2 ^ 14 \in Nat
              /\ 2 ^ 15 \in Nat /\ 2 ^ 16 \in Nat /\ 2 ^ 17 \in Nat /\ 2 ^ 18 \in Nat
              /\ 2 ^ 19 \in Nat /\ 2 ^ 20 \in Nat /\ 2 ^ 21 \in Nat /\ 2 ^ 22 \in Nat
              /\ 2 ^ 23 \in Nat /\ 2 ^ 24 \in Nat
          OBVIOUS
        <5> DEFINE upTo24 == {1, 2, 3, 4, 5, 6, 7, 8, 9, 10, 11, 12, 13, 14, 15, 16, 17, 18, 19,
                            20, 21, 22, 23, 24}
        <5>2. \A n \in upTo24 : 2 ^ n \in Nat
          BY <5>1
        <5>3. 1 .. 24 \subseteq upTo24
          OBVIOUS
        <5> HIDE DEF upTo24
        <5> QED
          BY <5>2, <5>3
      <4>3. ~ 2 ^ chip.id_bits < 8192
        BY <3>2, <4>1, <4>2
      <4> QED
        BY <2>2, <3>2, <3>4, <4>1, <4>3 DEF num_lpis
    <3> QED
      BY <3>3, <3>4
  <2>4. chip.espis # 0 => last_espi(v) = ESPI_START + chip.espis - 1
    <3>1. ESPI_START \in Nat
      BY IntIdAssumption DEF ESPI_START, EPPI_END, EPPI_START, SPECIAL_END
    <3> QED
      BY <1>3, <3>1, TyperFields, ChipCounts DEF v, last_espi, max_espi, espi
  <2>5. TyperSupports(v) = Supported \cap (DOMAIN TyperFlag \cup {"one_of_n_supported"})
    <3>1. "one_of_n_supported" \in Supported <=> "one_of_n_supported" \in chip.features
      BY DEF Supported
    <3>2. "one_of_n_supported" \notin DOMAIN TyperFlag
      BY DEF TyperFlag
    <3> QED
      BY <3>1, <3>2, TyperFields DEF v, TyperSupports
  <2> QED
    BY <1>1, <1>2, <1>6, <2>1, <2>2, <2>3, <2>4, <2>5 DEF CountsTold
<1> QED
  BY <1>5, <1>6

-----------------------------------------------------------------------------
(***************************************************************************)
(* The layout of the structs.                                              *)
(***************************************************************************)

(* Element k of a struct begins where starts says, aligned and next to its *)
(* neighbours; a register of regs begins where regs says, and one of files *)
(* has the place, element size and count that files says.                  *)
Placed(struct, starts, regs, files, k, name) ==
  /\ struct[k][1] = name
  /\ struct[k][2] \in {1, 4, 8} /\ struct[k][3] \in Nat \ {0}
  /\ starts[k] % struct[k][2] = 0 /\ starts[k + 1] = starts[k] + struct[k][2] * struct[k][3]
  /\ name \in DOMAIN regs => regs[name] = starts[k]
  /\ name \in DOMAIN files => files[name] = <<starts[k], struct[k][2], struct[k][3]>>

(* A register of regs is at its place, one of files has its size as well.  *)
FieldRight(field, regs, files, name) ==
  /\ field.at \in Nat /\ field.size \in {1, 4, 8} /\ field.count \in Nat \ {0}
  /\ name \in DOMAIN regs => field.at = regs[name]
  /\ name \in DOMAIN files =>
       field = [at |-> files[name][1], size |-> files[name][2], count |-> files[name][3]]

(* Nothing moves that is aligned.                                          *)
LEMMA Aligned ==
  ASSUME NEW a \in Nat, NEW s \in {1, 4, 8}, a % s = 0 PROVE AlignUp(a, s) = a
<1>1. CASE s = 1
  BY <1>1 DEF AlignUp
<1>2. CASE s = 4
  BY <1>2 DEF AlignUp
<1>3. CASE s = 8
  BY <1>3 DEF AlignUp
<1> QED
  BY <1>1, <1>2, <1>3

(* Every element is placed.                                                *)
Tiled(struct, n, starts, regs, files) ==
  /\ DOMAIN struct = 1 .. n /\ Len(struct) = n
  /\ starts \in [1 .. n + 1 -> Nat] /\ starts[1] = 0
  /\ \A k \in 1 .. n : \E name : Placed(struct, starts, regs, files, k, name)

(* Every field is where its element is placed.                             *)
FieldsPlaced(struct, n, starts, regs, files) ==
  \A name : \A k \in 1 .. n : Placed(struct, starts, regs, files, k, name) =>
    /\ name \in DOMAIN FieldsOf(struct)
    /\ FieldRight(FieldsOf(struct)[name], regs, files, name)

(* A struct whose elements are placed one after the other has its fields   *)
(* there.                                                                  *)
LEMMA LayoutOf ==
  ASSUME NEW n \in Nat, NEW struct, NEW starts, NEW regs, NEW files,
         Tiled(struct, n, starts, regs, files)
  PROVE  /\ FieldsPlaced(struct, n, starts, regs, files)
         /\ SizeOf(struct) = AlignUp(starts[n + 1], 8)
<1> USE DEF Tiled
<1> DEFINE e == End(struct)
           f == [k \in 0 .. n |-> starts[k + 1]]
           bytes(k) == struct[k][2] * struct[k][3]
<1>1. ASSUME NEW k \in 1 .. n
      PROVE  starts[k + 1] = AlignUp(starts[k], struct[k][2]) + bytes(k)
  <2>1. starts[k] \in Nat
    OBVIOUS
  <2> QED
    BY <2>1, Aligned DEF Placed
<1>2. f = [k \in 0 .. Len(struct) |-> IF k = 0 THEN 0 ELSE AlignUp(f[k - 1], struct[k][2]) + bytes(k)]
  <2>1. ASSUME NEW k \in 0 .. n
        PROVE  f[k] = IF k = 0 THEN 0 ELSE AlignUp(f[k - 1], struct[k][2]) + bytes(k)
    <3>1. CASE k = 0
      BY <3>1
    <3>2. CASE k # 0
      <4>1. k \in 1 .. n /\ k - 1 \in 0 .. n /\ (k - 1) + 1 = k
        BY <3>2
      <4>2. f[k - 1] = starts[k] /\ f[k] = starts[k + 1]
        BY <4>1
      <4> HIDE DEF f, bytes
      <4> QED
        BY <1>1, <3>2, <4>1, <4>2
    <3> QED
      BY <3>1, <3>2
  <2> HIDE DEF bytes
  <2> QED
    BY <2>1
<1>3. e = [k \in 0 .. Len(struct) |-> IF k = 0 THEN 0 ELSE AlignUp(e[k - 1], struct[k][2]) + bytes(k)]
  BY <1>2 DEF End
<1> HIDE DEF e, f, bytes
<1>4. \A k \in 0 .. n : e[k] = f[k]
  <2> DEFINE S == {k \in Nat : k <= n => e[k] = f[k]}
  <2>1. 0 \in S
    BY <1>2, <1>3
  <2>2. ASSUME NEW k \in Nat, k \in S PROVE k + 1 \in S
    <3>1. SUFFICES ASSUME k + 1 <= n PROVE e[k + 1] = f[k + 1]
      OBVIOUS
    <3>2. k + 1 \in 0 .. n /\ k + 1 # 0 /\ (k + 1) - 1 = k /\ e[k] = f[k]
      BY <2>2, <3>1
    <3>3. e[k + 1] = AlignUp(e[k], struct[k + 1][2]) + bytes(k + 1)
      BY <1>3, <3>2
    <3>4. f[k + 1] = AlignUp(f[k], struct[k + 1][2]) + bytes(k + 1)
      BY <1>2, <3>2
    <3> QED
      BY <3>2, <3>3, <3>4
  <2> HIDE DEF S
  <2>3. Nat \subseteq S
    BY <2>1, <2>2, Induction
  <2> QED
    BY <2>3 DEF S
<1>5. \A k \in 1 .. n : e[k] - bytes(k) = starts[k]
  <2> SUFFICES ASSUME NEW k \in 1 .. n PROVE e[k] - bytes(k) = starts[k]
    OBVIOUS
  <2>1. e[k] = starts[k + 1]
    BY <1>4 DEF f
  <2>2. starts[k + 1] = starts[k] + bytes(k) /\ starts[k] \in Nat /\ starts[k + 1] \in Nat
    BY DEF Placed, bytes
  <2>3. bytes(k) \in Nat
    <3>1. \A c \in Nat : 1 * c \in Nat /\ 4 * c \in Nat /\ 8 * c \in Nat
      OBVIOUS
    <3>2. struct[k][2] \in {1, 4, 8} /\ struct[k][3] \in Nat
      BY DEF Placed
    <3> QED
      BY <3>1, <3>2 DEF bytes
  <2> QED
    BY <2>1, <2>2, <2>3
<1>6. ASSUME NEW k \in 1 .. n
      PROVE  \E m \in 1 .. n :
               /\ struct[m][1] = struct[k][1]
               /\ FieldsOf(struct)[struct[k][1]] = [at |-> starts[m], size |-> struct[m][2], count |-> struct[m][3]]
  <2> DEFINE m == CHOOSE j \in DOMAIN struct : struct[j][1] = struct[k][1]
  <2>1. m \in 1 .. n /\ struct[m][1] = struct[k][1]
    OBVIOUS
  <2>2. FieldsOf(struct)[struct[k][1]]
          = [at |-> e[m] - struct[m][2] * struct[m][3], size |-> struct[m][2], count |-> struct[m][3]]
    BY DEF FieldsOf, e
  <2> HIDE DEF m
  <2> QED
    BY <1>5, <2>1, <2>2 DEF bytes
<1>7. ASSUME NEW k \in 1 .. n, NEW name, Placed(struct, starts, regs, files, k, name)
      PROVE  name \in DOMAIN FieldsOf(struct) /\ FieldRight(FieldsOf(struct)[name], regs, files, name)
  <2>1. struct[k][1] = name
    BY <1>7 DEF Placed
  <2>2. PICK m \in 1 .. n :
          /\ struct[m][1] = name
          /\ FieldsOf(struct)[name] = [at |-> starts[m], size |-> struct[m][2], count |-> struct[m][3]]
    BY <1>6, <2>1
  <2>3. Placed(struct, starts, regs, files, m, name)
    BY <2>2 DEF Placed
  <2>4. name \in DOMAIN FieldsOf(struct)
    BY <2>1 DEF FieldsOf
  <2>5. starts[m] \in Nat
    BY <2>2
  <2> QED
    BY <2>2, <2>3, <2>4, <2>5 DEF Placed, FieldRight
<1>8. e[n] = starts[n + 1]
  BY <1>4 DEF f
<1> QED
  BY <1>7, <1>8 DEF SizeOf, e, FieldsPlaced

(* A struct without files of registers: its first register is enough.      *)
NoFiles == [ctlr |-> <<0, 4, 1>>]

GicdV3Starts ==
  <<0, 4, 8, 12, 16, 20, 32, 64, 68, 72, 76, 80, 84, 88, 92, 128, 256, 384, 512, 640, 768,
     896, 1024, 2048, 3072, 3328, 3456, 3584, 3840, 3844, 3856, 3872, 3888, 3968, 4096,
     4224, 4608, 4736, 5120, 5248, 5632, 5760, 6144, 6272, 6656, 6784, 7168, 7296, 8192,
     9216, 12288, 12544, 13312, 13440, 13824, 13952, 15104, 15232, 24832, 32736, 32768,
     40960, 49152, 65488, 65536>>

GicdV3Files ==
  [igroupr |-> <<128, 4, 32>>, isenabler |-> <<256, 4, 32>>, icenabler |-> <<384, 4, 32>>,
   ipriorityr |-> <<1024, 1, 1024>>, icfgr |-> <<3072, 4, 64>>,
   igrpmodr |-> <<3328, 4, 32>>]

(* The registers of the distributor of a GICv3 are where they should be.   *)
LEMMA GicdV3Layout ==
  /\ \A name \in DOMAIN ArmGicdV3 \cup DOMAIN GicdV3Files :
       /\ name \in DOMAIN FieldsOf(GicdV3)
       /\ FieldRight(FieldsOf(GicdV3)[name], ArmGicdV3, GicdV3Files, name)
<1> DEFINE P(k, name) == Placed(GicdV3, GicdV3Starts, ArmGicdV3, GicdV3Files, k, name)
<1> USE DEF Placed, GicdV3, GicdV3Starts, ArmGicdV3, GicdV3Files
<1>1.   P(1, "ctlr")              OBVIOUS
<1>2.   P(2, "typer")             OBVIOUS
<1>3.   P(3, "iidr")              OBVIOUS
<1>4.   P(4, "typer2")            OBVIOUS
<1>5.   P(5, "statusr")           OBVIOUS
<1>6.   P(6, "gap")               OBVIOUS
<1>7.   P(7, "gap")               OBVIOUS
<1>8.   P(8, "setspi_nsr")        OBVIOUS
<1>9.   P(9, "gap")               OBVIOUS
<1>10.  P(10, "clrspi_nsr")       OBVIOUS
<1>11.  P(11, "gap")              OBVIOUS
<1>12.  P(12, "setspi_sr")        OBVIOUS
<1>13.  P(13, "gap")              OBVIOUS
<1>14.  P(14, "clrspi_sr")        OBVIOUS
<1>15.  P(15, "gap")              OBVIOUS
<1>16.  P(16, "igroupr")          OBVIOUS
<1>17.  P(17, "isenabler")        OBVIOUS
<1>18.  P(18, "icenabler")        OBVIOUS
<1>19.  P(19, "ispendr")          OBVIOUS
<1>20.  P(20, "icpendr")          OBVIOUS
<1>21.  P(21, "isactiver")        OBVIOUS
<1>22.  P(22, "icactiver")        OBVIOUS
<1>23.  P(23, "ipriorityr")       OBVIOUS
<1>24.  P(24, "itargetsr")        OBVIOUS
<1>25.  P(25, "icfgr")            OBVIOUS
<1>26.  P(26, "igrpmodr")         OBVIOUS
<1>27.  P(27, "gap")              OBVIOUS
<1>28.  P(28, "nsacr")            OBVIOUS
<1>29.  P(29, "sigr")             OBVIOUS
<1>30.  P(30, "gap")              OBVIOUS
<1>31.  P(31, "cpendsgir")        OBVIOUS
<1>32.  P(32, "spendsgir")        OBVIOUS
<1>33.  P(33, "gap")              OBVIOUS
<1>34.  P(34, "inmir")            OBVIOUS
<1>35.  P(35, "igroupr_e")        OBVIOUS
<1>36.  P(36, "gap")              OBVIOUS
<1>37.  P(37, "isenabler_e")      OBVIOUS
<1>38.  P(38, "gap")              OBVIOUS
<1>39.  P(39, "icenabler_e")      OBVIOUS
<1>40.  P(40, "gap")              OBVIOUS
<1>41.  P(41, "ispendr_e")        OBVIOUS
<1>42.  P(42, "gap")              OBVIOUS
<1>43.  P(43, "icpendr_e")        OBVIOUS
<1>44.  P(44, "gap")              OBVIOUS
<1>45.  P(45, "isactive_e")       OBVIOUS
<1>46.  P(46, "gap")              OBVIOUS
<1>47.  P(47, "icactive_e")       OBVIOUS
<1>48.  P(48, "gap")              OBVIOUS
<1>49.  P(49, "ipriorityr_e")     OBVIOUS
<1>50.  P(50, "gap")              OBVIOUS
<1>51.  P(51, "icfgr_e")          OBVIOUS
<1>52.  P(52, "gap")              OBVIOUS
<1>53.  P(53, "igrpmodr_e")       OBVIOUS
<1>54.  P(54, "gap")              OBVIOUS
<1>55.  P(55, "nsacr_e")          OBVIOUS
<1>56.  P(56, "gap")              OBVIOUS
<1>57.  P(57, "inmr_e")           OBVIOUS
<1>58.  P(58, "gap")              OBVIOUS
<1>59.  P(59, "irouter")          OBVIOUS
<1>60.  P(60, "gap")              OBVIOUS
<1>61.  P(61, "irouter_e")        OBVIOUS
<1>62.  P(62, "gap")              OBVIOUS
<1>63.  P(63, "gap")              OBVIOUS
<1>64.  P(64, "id_registers")     OBVIOUS
<1> HIDE DEF P, Placed, GicdV3, GicdV3Starts, ArmGicdV3, GicdV3Files
<1>65. \A k \in {1, 2, 3, 4, 5, 6, 7, 8} : \E name : P(k, name)
  BY <1>1, <1>2, <1>3, <1>4, <1>5, <1>6, <1>7, <1>8
<1>66. \A name \in {"ctlr", "typer", "iidr", "typer2", "statusr", "setspi_nsr"} :
         \E k \in 1 .. 64 : P(k, name)
  BY <1>1, <1>2, <1>3, <1>4, <1>5, <1>6, <1>7, <1>8
<1>67. \A k \in {9, 10, 11, 12, 13, 14, 15, 16} : \E name : P(k, name)
  BY <1>9, <1>10, <1>11, <1>12, <1>13, <1>14, <1>15, <1>16
<1>68. \A name \in {"clrspi_nsr", "setspi_sr", "clrspi_sr", "igroupr"} :
         \E k \in 1 .. 64 : P(k, name)
  BY <1>9, <1>10, <1>11, <1>12, <1>13, <1>14, <1>15, <1>16
<1>69. \A k \in {17, 18, 19, 20, 21, 22, 23, 24} : \E name : P(k, name)
  BY <1>17, <1>18, <1>19, <1>20, <1>21, <1>22, <1>23, <1>24
<1>70. \A name \in {"isenabler", "icenabler", "ispendr", "icpendr", "isactiver", "icactiver",
            "ipriorityr", "itargetsr"} :
         \E k \in 1 .. 64 : P(k, name)
  BY <1>17, <1>18, <1>19, <1>20, <1>21, <1>22, <1>23, <1>24
<1>71. \A k \in {25, 26, 27, 28, 29, 30, 31, 32} : \E name : P(k, name)
  BY <1>25, <1>26, <1>27, <1>28, <1>29, <1>30, <1>31, <1>32
<1>72. \A name \in {"icfgr", "igrpmodr", "nsacr", "sigr", "cpendsgir", "spendsgir"} :
         \E k \in 1 .. 64 : P(k, name)
  BY <1>25, <1>26, <1>27, <1>28, <1>29, <1>30, <1>31, <1>32
<1>73. \A k \in {33, 34, 35, 36, 37, 38, 39, 40} : \E name : P(k, name)
  BY <1>33, <1>34, <1>35, <1>36, <1>37, <1>38, <1>39, <1>40
<1>74. \A name \in {"inmir", "igroupr_e", "isenabler_e", "icenabler_e"} :
         \E k \in 1 .. 64 : P(k, name)
  BY <1>33, <1>34, <1>35, <1>36, <1>37, <1>38, <1>39, <1>40
<1>75. \A k \in {41, 42, 43, 44, 45, 46, 47, 48} : \E name : P(k, name)
  BY <1>41, <1>42, <1>43, <1>44, <1>45, <1>46, <1>47, <1>48
<1>76. \A name \in {"ispendr_e", "icpendr_e", "isactive_e", "icactive_e"} :
         \E k \in 1 .. 64 : P(k, name)
  BY <1>41, <1>42, <1>43, <1>44, <1>45, <1>46, <1>47, <1>48
<1>77. \A k \in {49, 50, 51, 52, 53, 54, 55, 56} : \E name : P(k, name)
  BY <1>49, <1>50, <1>51, <1>52, <1>53, <1>54, <1>55, <1>56
<1>78. \A name \in {"ipriorityr_e", "icfgr_e", "igrpmodr_e", "nsacr_e"} :
         \E k \in 1 .. 64 : P(k, name)
  BY <1>49, <1>50, <1>51, <1>52, <1>53, <1>54, <1>55, <1>56
<1>79. \A k \in {57, 58, 59, 60, 61, 62, 63, 64} : \E name : P(k, name)
  BY <1>57, <1>58, <1>59, <1>60, <1>61, <1>62, <1>63, <1>64
<1>80. \A name \in {"inmr_e", "irouter", "irouter_e", "id_registers"} :
         \E k \in 1 .. 64 : P(k, name)
  BY <1>57, <1>58, <1>59, <1>60, <1>61, <1>62, <1>63, <1>64
<1>81. \A k \in 1 .. 64 : \E name : P(k, name)
  BY <1>65, <1>67, <1>69, <1>71, <1>73, <1>75, <1>77, <1>79
<1>82. \A name \in DOMAIN ArmGicdV3 \cup DOMAIN GicdV3Files : \E k \in 1 .. 64 : P(k, name)
  BY <1>66, <1>68, <1>70, <1>72, <1>74, <1>76, <1>78, <1>80 DEF ArmGicdV3, GicdV3Files
<1>83. Tiled(GicdV3, 64, GicdV3Starts, ArmGicdV3, GicdV3Files)
  <2>1. DOMAIN GicdV3 = 1 .. 64 /\ Len(GicdV3) = 64
    BY DEF GicdV3
  <2>2. GicdV3Starts \in [1 .. 64 + 1 -> Nat] /\ GicdV3Starts[1] = 0
    BY DEF GicdV3Starts
  <2> QED
    BY <1>81, <2>1, <2>2 DEF Tiled, P
<1>84. /\ FieldsPlaced(GicdV3, 64, GicdV3Starts, ArmGicdV3, GicdV3Files)
       /\ SizeOf(GicdV3) = AlignUp(GicdV3Starts[64 + 1], 8)
  BY <1>83, LayoutOf
<1> QED
  BY <1>82, <1>84 DEF FieldsPlaced, P

GicrStarts ==
  <<0, 4, 8, 16, 20, 24, 28, 32, 36, 40, 64, 72, 80, 112, 120, 128, 160, 168, 176, 184,
     192, 196, 256, 264, 272, 280, 49152, 65488, 65536>>

(* The registers of the first frame of a redistributor are where they should be.*)
LEMMA GicrLayout ==
  /\ \A name \in DOMAIN ArmGicr :
       /\ name \in DOMAIN FieldsOf(Gicr)
       /\ FieldRight(FieldsOf(Gicr)[name], ArmGicr, NoFiles, name)
  /\ SizeOf(Gicr) = FrameSize
<1> DEFINE P(k, name) == Placed(Gicr, GicrStarts, ArmGicr, NoFiles, k, name)
<1> USE DEF Placed, Gicr, GicrStarts, ArmGicr, NoFiles
<1>1.   P(1, "ctlr")              OBVIOUS
<1>2.   P(2, "iidr")              OBVIOUS
<1>3.   P(3, "typer")             OBVIOUS
<1>4.   P(4, "statusr")           OBVIOUS
<1>5.   P(5, "waker")             OBVIOUS
<1>6.   P(6, "mpamidr")           OBVIOUS
<1>7.   P(7, "partidr")           OBVIOUS
<1>8.   P(8, "gap")               OBVIOUS
<1>9.   P(9, "pwrr")              OBVIOUS
<1>10.  P(10, "gap")              OBVIOUS
<1>11.  P(11, "setlprir")         OBVIOUS
<1>12.  P(12, "clrlpir")          OBVIOUS
<1>13.  P(13, "gap")              OBVIOUS
<1>14.  P(14, "propbaser")        OBVIOUS
<1>15.  P(15, "pendbaser")        OBVIOUS
<1>16.  P(16, "gap")              OBVIOUS
<1>17.  P(17, "invlpir")          OBVIOUS
<1>18.  P(18, "gap")              OBVIOUS
<1>19.  P(19, "invallr")          OBVIOUS
<1>20.  P(20, "gap")              OBVIOUS
<1>21.  P(21, "syncr")            OBVIOUS
<1>22.  P(22, "gap")              OBVIOUS
<1>23.  P(23, "gap")              OBVIOUS
<1>24.  P(24, "gap")              OBVIOUS
<1>25.  P(25, "gap")              OBVIOUS
<1>26.  P(26, "gap")              OBVIOUS
<1>27.  P(27, "gap")              OBVIOUS
<1>28.  P(28, "id_registers")     OBVIOUS
<1> HIDE DEF P, Placed, Gicr, GicrStarts, ArmGicr, NoFiles
<1>29. \A k \in {1, 2, 3, 4, 5, 6, 7, 8} : \E name : P(k, name)
  BY <1>1, <1>2, <1>3, <1>4, <1>5, <1>6, <1>7, <1>8
<1>30. \A name \in {"ctlr", "iidr", "typer", "statusr", "waker", "mpamidr", "partidr"} :
         \E k \in 1 .. 28 : P(k, name)
  BY <1>1, <1>2, <1>3, <1>4, <1>5, <1>6, <1>7, <1>8
<1>31. \A k \in {9, 10, 11, 12, 13, 14, 15, 16} : \E name : P(k, name)
  BY <1>9, <1>10, <1>11, <1>12, <1>13, <1>14, <1>15, <1>16
<1>32. \A name \in {"pwrr", "setlprir", "clrlpir", "propbaser", "pendbaser"} :
         \E k \in 1 .. 28 : P(k, name)
  BY <1>9, <1>10, <1>11, <1>12, <1>13, <1>14, <1>15, <1>16
<1>33. \A k \in {17, 18, 19, 20, 21, 22, 23, 24} : \E name : P(k, name)
  BY <1>17, <1>18, <1>19, <1>20, <1>21, <1>22, <1>23, <1>24
<1>34. \A name \in {"invlpir", "invallr", "syncr"} :
         \E k \in 1 .. 28 : P(k, name)
  BY <1>17, <1>18, <1>19, <1>20, <1>21, <1>22, <1>23, <1>24
<1>35. \A k \in {25, 26, 27, 28} : \E name : P(k, name)
  BY <1>25, <1>26, <1>27, <1>28
<1>36. \A name \in {"id_registers"} :
         \E k \in 1 .. 28 : P(k, name)
  BY <1>25, <1>26, <1>27, <1>28
<1>37. \A k \in 1 .. 28 : \E name : P(k, name)
  BY <1>29, <1>31, <1>33, <1>35
<1>38. \A name \in DOMAIN ArmGicr : \E k \in 1 .. 28 : P(k, name)
  BY <1>30, <1>32, <1>34, <1>36 DEF ArmGicr, NoFiles
<1>39. Tiled(Gicr, 28, GicrStarts, ArmGicr, NoFiles)
  <2>1. DOMAIN Gicr = 1 .. 28 /\ Len(Gicr) = 28
    BY DEF Gicr
  <2>2. GicrStarts \in [1 .. 28 + 1 -> Nat] /\ GicrStarts[1] = 0
    BY DEF GicrStarts
  <2> QED
    BY <1>37, <2>1, <2>2 DEF Tiled, P
<1>40. /\ FieldsPlaced(Gicr, 28, GicrStarts, ArmGicr, NoFiles)
       /\ SizeOf(Gicr) = AlignUp(GicrStarts[28 + 1], 8)
  BY <1>39, LayoutOf
<1>41. AlignUp(GicrStarts[28 + 1], 8) = FrameSize
  BY DEF GicrStarts, AlignUp, FrameSize
<1> QED
  BY <1>38, <1>40, <1>41 DEF FieldsPlaced, P

SgiStarts ==
  <<0, 128, 132, 140, 256, 260, 268, 384, 388, 396, 512, 516, 524, 640, 644, 652, 768,
     772, 780, 896, 900, 908, 1024, 1056, 1120, 3072, 3096, 3328, 3332, 3340, 3584, 3588,
     3968, 3972, 4096, 49152, 65488, 65536>>

SgiFiles ==
  [igroupr0 |-> <<128, 4, 1>>, isenabler0 |-> <<256, 4, 1>>, icenabler0 |-> <<384, 4, 1>>,
   ipriorityr |-> <<1024, 1, 32>>, icfgr |-> <<3072, 4, 6>>, igrpmodr0 |-> <<3328, 4, 1>>]

(* The registers of the second frame of a redistributor are where they should be.*)
LEMMA SgiLayout ==
  /\ \A name \in DOMAIN ArmSgi \cup DOMAIN SgiFiles :
       /\ name \in DOMAIN FieldsOf(Sgi)
       /\ FieldRight(FieldsOf(Sgi)[name], ArmSgi, SgiFiles, name)
  /\ SizeOf(Sgi) = FrameSize
<1> DEFINE P(k, name) == Placed(Sgi, SgiStarts, ArmSgi, SgiFiles, k, name)
<1> USE DEF Placed, Sgi, SgiStarts, ArmSgi, SgiFiles
<1>1.   P(1, "gap")               OBVIOUS
<1>2.   P(2, "igroupr0")          OBVIOUS
<1>3.   P(3, "igroupr_e")         OBVIOUS
<1>4.   P(4, "gap")               OBVIOUS
<1>5.   P(5, "isenabler0")        OBVIOUS
<1>6.   P(6, "isenabler_e")       OBVIOUS
<1>7.   P(7, "gap")               OBVIOUS
<1>8.   P(8, "icenabler0")        OBVIOUS
<1>9.   P(9, "icenabler_e")       OBVIOUS
<1>10.  P(10, "gap")              OBVIOUS
<1>11.  P(11, "ispendr0")         OBVIOUS
<1>12.  P(12, "ispendr_e")        OBVIOUS
<1>13.  P(13, "gap")              OBVIOUS
<1>14.  P(14, "icpendr0")         OBVIOUS
<1>15.  P(15, "icpendr_e")        OBVIOUS
<1>16.  P(16, "gap")              OBVIOUS
<1>17.  P(17, "isactiver0")       OBVIOUS
<1>18.  P(18, "isactive_e")       OBVIOUS
<1>19.  P(19, "gap")              OBVIOUS
<1>20.  P(20, "icactiver0")       OBVIOUS
<1>21.  P(21, "icactive_e")       OBVIOUS
<1>22.  P(22, "gap")              OBVIOUS
<1>23.  P(23, "ipriorityr")       OBVIOUS
<1>24.  P(24, "ipriorityr_e")     OBVIOUS
<1>25.  P(25, "gap")              OBVIOUS
<1>26.  P(26, "icfgr")            OBVIOUS
<1>27.  P(27, "gap")              OBVIOUS
<1>28.  P(28, "igrpmodr0")        OBVIOUS
<1>29.  P(29, "igrpmodr_e")       OBVIOUS
<1>30.  P(30, "gap")              OBVIOUS
<1>31.  P(31, "nsacr")            OBVIOUS
<1>32.  P(32, "gap")              OBVIOUS
<1>33.  P(33, "inmir0")           OBVIOUS
<1>34.  P(34, "inmir_e")          OBVIOUS
<1>35.  P(35, "gap")              OBVIOUS
<1>36.  P(36, "gap")              OBVIOUS
<1>37.  P(37, "gap")              OBVIOUS
<1> HIDE DEF P, Placed, Sgi, SgiStarts, ArmSgi, SgiFiles
<1>38. \A k \in {1, 2, 3, 4, 5, 6, 7, 8} : \E name : P(k, name)
  BY <1>1, <1>2, <1>3, <1>4, <1>5, <1>6, <1>7, <1>8
<1>39. \A name \in {"igroupr0", "igroupr_e", "isenabler0", "isenabler_e", "icenabler0"} :
         \E k \in 1 .. 37 : P(k, name)
  BY <1>1, <1>2, <1>3, <1>4, <1>5, <1>6, <1>7, <1>8
<1>40. \A k \in {9, 10, 11, 12, 13, 14, 15, 16} : \E name : P(k, name)
  BY <1>9, <1>10, <1>11, <1>12, <1>13, <1>14, <1>15, <1>16
<1>41. \A name \in {"icenabler_e", "ispendr0", "ispendr_e", "icpendr0", "icpendr_e"} :
         \E k \in 1 .. 37 : P(k, name)
  BY <1>9, <1>10, <1>11, <1>12, <1>13, <1>14, <1>15, <1>16
<1>42. \A k \in {17, 18, 19, 20, 21, 22, 23, 24} : \E name : P(k, name)
  BY <1>17, <1>18, <1>19, <1>20, <1>21, <1>22, <1>23, <1>24
<1>43. \A name \in {"isactiver0", "isactive_e", "icactiver0", "icactive_e", "ipriorityr",
            "ipriorityr_e"} :
         \E k \in 1 .. 37 : P(k, name)
  BY <1>17, <1>18, <1>19, <1>20, <1>21, <1>22, <1>23, <1>24
<1>44. \A k \in {25, 26, 27, 28, 29, 30, 31, 32} : \E name : P(k, name)
  BY <1>25, <1>26, <1>27, <1>28, <1>29, <1>30, <1>31, <1>32
<1>45. \A name \in {"icfgr", "igrpmodr0", "igrpmodr_e", "nsacr"} :
         \E k \in 1 .. 37 : P(k, name)
  BY <1>25, <1>26, <1>27, <1>28, <1>29, <1>30, <1>31, <1>32
<1>46. \A k \in {33, 34, 35, 36, 37} : \E name : P(k, name)
  BY <1>33, <1>34, <1>35, <1>36, <1>37
<1>47. \A name \in {"inmir0", "inmir_e"} :
         \E k \in 1 .. 37 : P(k, name)
  BY <1>33, <1>34, <1>35, <1>36, <1>37
<1>48. \A k \in 1 .. 37 : \E name : P(k, name)
  BY <1>38, <1>40, <1>42, <1>44, <1>46
<1>49. \A name \in DOMAIN ArmSgi \cup DOMAIN SgiFiles : \E k \in 1 .. 37 : P(k, name)
  BY <1>39, <1>41, <1>43, <1>45, <1>47 DEF ArmSgi, SgiFiles
<1>50. Tiled(Sgi, 37, SgiStarts, ArmSgi, SgiFiles)
  <2>1. DOMAIN Sgi = 1 .. 37 /\ Len(Sgi) = 37
    BY DEF Sgi
  <2>2. SgiStarts \in [1 .. 37 + 1 -> Nat] /\ SgiStarts[1] = 0
    BY DEF SgiStarts
  <2> QED
    BY <1>48, <2>1, <2>2 DEF Tiled, P
<1>51. /\ FieldsPlaced(Sgi, 37, SgiStarts, ArmSgi, SgiFiles)
       /\ SizeOf(Sgi) = AlignUp(SgiStarts[37 + 1], 8)
  BY <1>50, LayoutOf
<1>52. AlignUp(SgiStarts[37 + 1], 8) = FrameSize
  BY DEF SgiStarts, AlignUp, FrameSize
<1> QED
  BY <1>49, <1>51, <1>52 DEF FieldsPlaced, P

GicdV2Starts ==
  <<0, 4, 8, 12, 128, 256, 384, 512, 640, 768, 896, 1024, 2048, 3072, 3328, 3840, 3844>>

GicdV2Files ==
  [igroupr |-> <<128, 4, 32>>, isenabler |-> <<256, 4, 32>>, icenabler |-> <<384, 4, 32>>,
   ipriorityr |-> <<1024, 4, 256>>, icfgr |-> <<3072, 4, 64>>]

(* The registers of the distributor of a GICv2 are where they should be.   *)
LEMMA GicdV2Layout ==
  /\ \A name \in DOMAIN ArmGicdV2 \cup DOMAIN GicdV2Files :
       /\ name \in DOMAIN FieldsOf(GicdV2)
       /\ FieldRight(FieldsOf(GicdV2)[name], ArmGicdV2, GicdV2Files, name)
<1> DEFINE P(k, name) == Placed(GicdV2, GicdV2Starts, ArmGicdV2, GicdV2Files, k, name)
<1> USE DEF Placed, GicdV2, GicdV2Starts, ArmGicdV2, GicdV2Files
<1>1.   P(1, "ctlr")              OBVIOUS
<1>2.   P(2, "typer")             OBVIOUS
<1>3.   P(3, "iidr")              OBVIOUS
<1>4.   P(4, "gap")               OBVIOUS
<1>5.   P(5, "igroupr")           OBVIOUS
<1>6.   P(6, "isenabler")         OBVIOUS
<1>7.   P(7, "icenabler")         OBVIOUS
<1>8.   P(8, "ispendr")           OBVIOUS
<1>9.   P(9, "icpendr")           OBVIOUS
<1>10.  P(10, "isactiver")        OBVIOUS
<1>11.  P(11, "icactiver")        OBVIOUS
<1>12.  P(12, "ipriorityr")       OBVIOUS
<1>13.  P(13, "itargetsr")        OBVIOUS
<1>14.  P(14, "icfgr")            OBVIOUS
<1>15.  P(15, "gap")              OBVIOUS
<1>16.  P(16, "sgir")             OBVIOUS
<1> HIDE DEF P, Placed, GicdV2, GicdV2Starts, ArmGicdV2, GicdV2Files
<1>17. \A k \in {1, 2, 3, 4, 5, 6, 7, 8} : \E name : P(k, name)
  BY <1>1, <1>2, <1>3, <1>4, <1>5, <1>6, <1>7, <1>8
<1>18. \A name \in {"ctlr", "typer", "iidr", "igroupr", "isenabler", "icenabler", "ispendr"} :
         \E k \in 1 .. 16 : P(k, name)
  BY <1>1, <1>2, <1>3, <1>4, <1>5, <1>6, <1>7, <1>8
<1>19. \A k \in {9, 10, 11, 12, 13, 14, 15, 16} : \E name : P(k, name)
  BY <1>9, <1>10, <1>11, <1>12, <1>13, <1>14, <1>15, <1>16
<1>20. \A name \in {"icpendr", "isactiver", "icactiver", "ipriorityr", "itargetsr", "icfgr",
            "sgir"} :
         \E k \in 1 .. 16 : P(k, name)
  BY <1>9, <1>10, <1>11, <1>12, <1>13, <1>14, <1>15, <1>16
<1>21. \A k \in 1 .. 16 : \E name : P(k, name)
  BY <1>17, <1>19
<1>22. \A name \in DOMAIN ArmGicdV2 \cup DOMAIN GicdV2Files : \E k \in 1 .. 16 : P(k, name)
  BY <1>18, <1>20 DEF ArmGicdV2, GicdV2Files
<1>23. Tiled(GicdV2, 16, GicdV2Starts, ArmGicdV2, GicdV2Files)
  <2>1. DOMAIN GicdV2 = 1 .. 16 /\ Len(GicdV2) = 16
    BY DEF GicdV2
  <2>2. GicdV2Starts \in [1 .. 16 + 1 -> Nat] /\ GicdV2Starts[1] = 0
    BY DEF GicdV2Starts
  <2> QED
    BY <1>21, <2>1, <2>2 DEF Tiled, P
<1>24. /\ FieldsPlaced(GicdV2, 16, GicdV2Starts, ArmGicdV2, GicdV2Files)
       /\ SizeOf(GicdV2) = AlignUp(GicdV2Starts[16 + 1], 8)
  BY <1>23, LayoutOf
<1> QED
  BY <1>22, <1>24 DEF FieldsPlaced, P

GiccStarts ==
  <<0, 4, 8, 12, 16, 20, 24, 28, 32, 36, 40, 44, 252, 256, 4096, 4100>>

(* The registers of the CPU interface of a GICv2 are where they should be. *)
LEMMA GiccLayout ==
  /\ \A name \in DOMAIN ArmGicc :
       /\ name \in DOMAIN FieldsOf(Gicc)
       /\ FieldRight(FieldsOf(Gicc)[name], ArmGicc, NoFiles, name)
<1> DEFINE P(k, name) == Placed(Gicc, GiccStarts, ArmGicc, NoFiles, k, name)
<1> USE DEF Placed, Gicc, GiccStarts, ArmGicc, NoFiles
<1>1.   P(1, "ctlr")              OBVIOUS
<1>2.   P(2, "pmr")               OBVIOUS
<1>3.   P(3, "bpr")               OBVIOUS
<1>4.   P(4, "iar")               OBVIOUS
<1>5.   P(5, "eoir")              OBVIOUS
<1>6.   P(6, "rpr")               OBVIOUS
<1>7.   P(7, "hppir")             OBVIOUS
<1>8.   P(8, "abpr")              OBVIOUS
<1>9.   P(9, "aiar")              OBVIOUS
<1>10.  P(10, "aeoir")            OBVIOUS
<1>11.  P(11, "ahppir")           OBVIOUS
<1>12.  P(12, "gap")              OBVIOUS
<1>13.  P(13, "iidr")             OBVIOUS
<1>14.  P(14, "gap")              OBVIOUS
<1>15.  P(15, "dir")              OBVIOUS
<1> HIDE DEF P, Placed, Gicc, GiccStarts, ArmGicc, NoFiles
<1>16. \A k \in {1, 2, 3, 4, 5, 6, 7, 8} : \E name : P(k, name)
  BY <1>1, <1>2, <1>3, <1>4, <1>5, <1>6, <1>7, <1>8
<1>17. \A name \in {"ctlr", "pmr", "bpr", "iar", "eoir", "rpr", "hppir", "abpr"} :
         \E k \in 1 .. 15 : P(k, name)
  BY <1>1, <1>2, <1>3, <1>4, <1>5, <1>6, <1>7, <1>8
<1>18. \A k \in {9, 10, 11, 12, 13, 14, 15} : \E name : P(k, name)
  BY <1>9, <1>10, <1>11, <1>12, <1>13, <1>14, <1>15
<1>19. \A name \in {"aiar", "aeoir", "ahppir", "iidr", "dir"} :
         \E k \in 1 .. 15 : P(k, name)
  BY <1>9, <1>10, <1>11, <1>12, <1>13, <1>14, <1>15
<1>20. \A k \in 1 .. 15 : \E name : P(k, name)
  BY <1>16, <1>18
<1>21. \A name \in DOMAIN ArmGicc : \E k \in 1 .. 15 : P(k, name)
  BY <1>17, <1>19 DEF ArmGicc, NoFiles
<1>22. Tiled(Gicc, 15, GiccStarts, ArmGicc, NoFiles)
  <2>1. DOMAIN Gicc = 1 .. 15 /\ Len(Gicc) = 15
    BY DEF Gicc
  <2>2. GiccStarts \in [1 .. 15 + 1 -> Nat] /\ GiccStarts[1] = 0
    BY DEF GiccStarts
  <2> QED
    BY <1>20, <2>1, <2>2 DEF Tiled, P
<1>23. /\ FieldsPlaced(Gicc, 15, GiccStarts, ArmGicc, NoFiles)
       /\ SizeOf(Gicc) = AlignUp(GiccStarts[15 + 1], 8)
  BY <1>22, LayoutOf
<1> QED
  BY <1>21, <1>23 DEF FieldsPlaced, P

(* The fields of the structs, by name.                                     *)
LEMMA StructIs ==
  /\ Struct["GicdV3"] = FieldsOf(GicdV3) /\ Struct["Gicr"] = FieldsOf(Gicr)
  /\ Struct["Sgi"] = FieldsOf(Sgi) /\ Struct["GicdV2"] = FieldsOf(GicdV2)
  /\ Struct["Gicc"] = FieldsOf(Gicc)
  BY DEF Struct

(* A file of the table of a struct has its place, size and count.          *)
LEMMA FileIs ==
  ASSUME NEW field, NEW regs, NEW files, NEW name \in DOMAIN files,
         FieldRight(field, regs, files, name)
  PROVE  field = [at |-> files[name][1], size |-> files[name][2], count |-> files[name][3]]
  BY DEF FieldRight

(* The files of registers that the calls about interrupts index lie where  *)
(* the architecture has them.                                              *)
THEOREM FilesAreLaidOut == FilesLaidOut
<1>1. /\ ArmFile["igroupr"][1] \div 8 = 128 /\ ArmFile["isenabler"][1] \div 8 = 256
      /\ ArmFile["icenabler"][1] \div 8 = 384 /\ ArmFile["igrpmodr"][1] \div 8 = 3328
      /\ ArmFile["ipriorityr"][1] \div 8 = 1024 /\ ArmFile["icfgr"][1] \div 8 = 3072
  BY DEF ArmFile
<1>2. /\ DOMAIN Private0 = {"igroupr", "isenabler", "icenabler", "igrpmodr"}
      /\ Private0["igroupr"] = "igroupr0" /\ Private0["isenabler"] = "isenabler0"
      /\ Private0["icenabler"] = "icenabler0" /\ Private0["igrpmodr"] = "igrpmodr0"
  BY DEF Private0
<1>3. \A name \in DOMAIN GicdV3Files :
        Struct["GicdV3"][name] = [at |-> GicdV3Files[name][1], size |-> GicdV3Files[name][2],
                                  count |-> GicdV3Files[name][3]]
  BY GicdV3Layout, StructIs, FileIs
<1>4. \A name \in DOMAIN SgiFiles :
        Struct["Sgi"][name] = [at |-> SgiFiles[name][1], size |-> SgiFiles[name][2],
                               count |-> SgiFiles[name][3]]
  BY SgiLayout, StructIs, FileIs
<1>5. \A name \in DOMAIN GicdV2Files :
        Struct["GicdV2"][name] = [at |-> GicdV2Files[name][1], size |-> GicdV2Files[name][2],
                                  count |-> GicdV2Files[name][3]]
  BY GicdV2Layout, StructIs, FileIs
<1>6. /\ Struct["GicdV3"]["igroupr"] = [at |-> 128, size |-> 4, count |-> 32]
      /\ Struct["GicdV3"]["isenabler"] = [at |-> 256, size |-> 4, count |-> 32]
      /\ Struct["GicdV3"]["icenabler"] = [at |-> 384, size |-> 4, count |-> 32]
      /\ Struct["GicdV3"]["igrpmodr"] = [at |-> 3328, size |-> 4, count |-> 32]
      /\ Struct["GicdV3"]["ipriorityr"] = [at |-> 1024, size |-> 1, count |-> 1024]
      /\ Struct["GicdV3"]["icfgr"] = [at |-> 3072, size |-> 4, count |-> 64]
  BY <1>3 DEF GicdV3Files
<1>7. /\ Struct["Sgi"]["igroupr0"] = [at |-> 128, size |-> 4, count |-> 1]
      /\ Struct["Sgi"]["isenabler0"] = [at |-> 256, size |-> 4, count |-> 1]
      /\ Struct["Sgi"]["icenabler0"] = [at |-> 384, size |-> 4, count |-> 1]
      /\ Struct["Sgi"]["igrpmodr0"] = [at |-> 3328, size |-> 4, count |-> 1]
      /\ Struct["Sgi"]["ipriorityr"] = [at |-> 1024, size |-> 1, count |-> 32]
      /\ Struct["Sgi"]["icfgr"] = [at |-> 3072, size |-> 4, count |-> 6]
  BY <1>4 DEF SgiFiles
<1>8. /\ Struct["GicdV2"]["igroupr"] = [at |-> 128, size |-> 4, count |-> 32]
      /\ Struct["GicdV2"]["isenabler"] = [at |-> 256, size |-> 4, count |-> 32]
      /\ Struct["GicdV2"]["icenabler"] = [at |-> 384, size |-> 4, count |-> 32]
      /\ Struct["GicdV2"]["ipriorityr"] = [at |-> 1024, size |-> 4, count |-> 256]
      /\ Struct["GicdV2"]["icfgr"] = [at |-> 3072, size |-> 4, count |-> 64]
  BY <1>5 DEF GicdV2Files
<1>9. Size.Gicr = FrameSize /\ Size.Sgi = FrameSize
  BY GicrLayout, SgiLayout DEF Size
<1> QED
  BY <1>1, <1>2, <1>6, <1>7, <1>8, <1>9 DEF FilesLaidOut

(* Every register that a call names is where the architecture has it, and  *)
(* its first element exists.                                               *)
LEMMA RegisterAt ==
  ASSUME NEW struct \in DOMAIN ArmRegister, NEW field \in DOMAIN ArmRegister[struct]
  PROVE  At(struct, field, 0, 0) = 8 * ArmRegister[struct][field] /\ ArmRegister[struct][field] \in Nat
<1>1. /\ DOMAIN ArmRegister = {"GicdV3", "Gicr", "Sgi", "GicdV2", "Gicc"}
      /\ ArmRegister["GicdV3"] = ArmGicdV3 /\ ArmRegister["Gicr"] = ArmGicr
      /\ ArmRegister["Sgi"] = ArmSgi /\ ArmRegister["GicdV2"] = ArmGicdV2
      /\ ArmRegister["Gicc"] = ArmGicc
  BY DEF ArmRegister
<1>2. \E files : FieldRight(Struct[struct][field], ArmRegister[struct], files, field)
  <2>1. CASE struct = "GicdV3"
    BY <1>1, <2>1, StructIs, GicdV3Layout
  <2>2. CASE struct = "Gicr"
    BY <1>1, <2>2, StructIs, GicrLayout
  <2>3. CASE struct = "Sgi"
    BY <1>1, <2>3, StructIs, SgiLayout
  <2>4. CASE struct = "GicdV2"
    BY <1>1, <2>4, StructIs, GicdV2Layout
  <2>5. CASE struct = "Gicc"
    BY <1>1, <2>5, StructIs, GiccLayout
  <2> QED
    BY <1>1, <2>1, <2>2, <2>3, <2>4, <2>5
<1> DEFINE f == Struct[struct][field]
<1>3. f.at \in Nat /\ f.size \in Nat /\ f.count \in Nat \ {0} /\ f.at = ArmRegister[struct][field]
  BY <1>2 DEF FieldRight
<1>4. At(struct, field, 0, 0) = IF 0 < f.count THEN 8 * (f.at + 0 * f.size) + 0 ELSE None
  BY DEF At
<1> HIDE DEF f
<1> QED
  BY <1>3, <1>4

-----------------------------------------------------------------------------
(***************************************************************************)
(* The window of a redistributor.                                          *)
(***************************************************************************)

(* GICR_TYPER announces virtual LPIs exactly on a chip that has them: no   *)
(* other field of the register reaches down to their bit.                  *)
LEMMA VirtualLpisAnnounced ==
  ASSUME NEW c \in Cpu, chip \in Chip
  PROVE  "virtual_lpis_supported" \in GicrTyperSupports(GicrTyperValue(c)) <=> chip.vlpis
<1>1. \A n, lo : lo \in Nat /\ lo > 1 => 1 \notin AsBits(n, lo)
  BY DEF AsBits
<1>2. 1 \notin UNION {AsBits(AffinityOf[c][k], 32 + 8 * k) : k \in 0 .. 3}
  BY <1>1
<1>3. /\ DOMAIN GicrTyperFlag = {"mpam_supported", "disable_processor_group_supported",
           "last_redistributor", "direct_lpis_supported", "dirty_supported",
           "virtual_lpis_supported", "physical_lpis_supported"}
      /\ \A f \in DOMAIN GicrTyperFlag : GicrTyperFlag[f] = 1 <=> f = "virtual_lpis_supported"
  BY DEF GicrTyperFlag
<1>4. "virtual_lpis_supported" \notin chip.features /\ chip.vlpis \in BOOLEAN
  BY AddressingAssumption DEF LegalChip
<1>5. 1 \notin {GicrTyperFlag[f] : f \in chip.features \cap DOMAIN GicrTyperFlag}
  BY <1>3, <1>4
<1>6. 1 \in GicrTyperValue(c) <=> chip.vlpis
  BY <1>1, <1>2, <1>3, <1>4, <1>5 DEF GicrTyperValue
<1> QED
  BY <1>3, <1>6 DEF GicrTyperSupports

(* The stride GicV3::new works out is the window of this chip.             *)
LEMMA WindowSize ==
  ASSUME chip \in Chip
  PROVE  /\ get_redistributor_window_size(chip.version = "v4") = Window
         /\ Window \in {131072, 262144}
<1>1. 0 \in Cpu
  BY AddressingAssumption DEF Cpu
<1>2. GicrSgiSize = FrameSize * 2 /\ 2 * GicrSgiSize = FrameSize * 4
  BY FilesAreLaidOut DEF FilesLaidOut, GicrSgiSize, FrameSize
<1>3. chip.vlpis \in BOOLEAN
  BY AddressingAssumption DEF LegalChip
<1> QED
  BY <1>1, <1>2, <1>3, VirtualLpisAnnounced DEF get_redistributor_window_size, Window, FrameSize

-----------------------------------------------------------------------------
(***************************************************************************)
(* The place of an interrupt.                                              *)
(***************************************************************************)

(* Index and bit of an interrupt together make its bits.                   *)
LEMMA IndexAndBit ==
  ASSUME NEW i \in Nat
  PROVE  /\ i \div 32 \in Nat /\ i % 32 \in Nat /\ 32 * (i \div 32) + (i % 32) = i
         /\ i \div 16 \in Nat /\ i % 16 \in Nat /\ 16 * (i \div 16) + (i % 16) = i
         /\ i \div 4 \in Nat /\ i % 4 \in Nat /\ 4 * (i \div 4) + (i % 4) = i
         /\ i \div 32 < 32 <=> i < 1024
         /\ i \div 32 < 1 <=> i < 32
         /\ i \div 16 < 64 <=> i < 1024
         /\ i < 32 => i \div 16 < 6
         /\ i \div 4 < 256 <=> i < 1024
<1>1. /\ i \div 32 \in Nat /\ i % 32 \in Nat /\ 32 * (i \div 32) + (i % 32) = i
      /\ i \div 32 < 32 <=> i < 1024
      /\ i \div 32 < 1 <=> i < 32
  OBVIOUS
<1>2. /\ i \div 16 \in Nat /\ i % 16 \in Nat /\ 16 * (i \div 16) + (i % 16) = i
      /\ i \div 16 < 64 <=> i < 1024
      /\ i < 32 => i \div 16 < 6
  OBVIOUS
<1>3. /\ i \div 4 \in Nat /\ i % 4 \in Nat /\ 4 * (i \div 4) + (i % 4) = i
      /\ i \div 4 < 256 <=> i < 1024
  OBVIOUS
<1> QED
  BY <1>1, <1>2, <1>3

(* The number of the bit of an interrupt that the architecture gives.      *)
ArmBit(file, i) == ArmFile[file][1] + i * ArmFile[file][2] + ArmFile[file][3]

(* A register file of that layout, with count elements.                    *)
LaidOut(struct, field, file, size, count) ==
  Struct[struct][field] = [at |-> ArmFile[file][1] \div 8, size |-> size, count |-> count]

(* One bit to an interrupt, 32 to a word.                                  *)
LEMMA BitPlace ==
  ASSUME NEW i \in Nat, NEW file \in DOMAIN Private0, NEW struct, NEW field, NEW count \in Nat,
         LaidOut(struct, field, file, 4, count)
  PROVE  BitOf(struct, field, i) = IF i \div 32 < count THEN ArmBit(file, i) ELSE None
<1>1. BitOf(struct, field, i)
        = IF i \div 32 < count THEN 8 * (ArmFile[file][1] \div 8 + (i \div 32) * 4) + (i % 32) ELSE None
  BY DEF BitOf, At, LaidOut
<1>2. /\ ArmFile[file][1] \in Nat /\ 8 * (ArmFile[file][1] \div 8) = ArmFile[file][1]
      /\ ArmFile[file][2] = 1 /\ ArmFile[file][3] = 0
  BY DEF ArmFile, Private0
<1> QED
  BY <1>1, <1>2, IndexAndBit DEF ArmBit

(* One byte to an interrupt, in a file of bytes.                           *)
LEMMA BytePlace ==
  ASSUME NEW i \in Nat, NEW struct, NEW count \in Nat,
         LaidOut(struct, "ipriorityr", "ipriorityr", 1, count)
  PROVE  ByteOf(struct, i) = IF i < count THEN ArmBit("ipriorityr", i) ELSE None
<1>1. ArmFile["ipriorityr"] = <<8192, 8, 0>> /\ 8192 \div 8 = 1024
  BY DEF ArmFile
<1>2. ByteOf(struct, i) = IF i < count THEN 8 * (1024 + i * 1) + 0 ELSE None
  BY <1>1 DEF ByteOf, At, LaidOut
<1> QED
  BY <1>1, <1>2 DEF ArmBit

(* The byte of a word that GICv2 shifts a priority to.                     *)
WordByteOf(struct, i) == At(struct, "ipriorityr", i \div 4, 8 * (i % 4))

(* One byte to an interrupt, four to a word.                               *)
LEMMA WordBytePlace ==
  ASSUME NEW i \in Nat, NEW struct, NEW count \in Nat,
         LaidOut(struct, "ipriorityr", "ipriorityr", 4, count)
  PROVE  WordByteOf(struct, i) = IF i \div 4 < count THEN ArmBit("ipriorityr", i) ELSE None
<1>1. ArmFile["ipriorityr"] = <<8192, 8, 0>> /\ 8192 \div 8 = 1024
  BY DEF ArmFile
<1>2. WordByteOf(struct, i)
        = IF i \div 4 < count THEN 8 * (1024 + (i \div 4) * 4) + 8 * (i % 4) ELSE None
  BY <1>1 DEF WordByteOf, At, LaidOut
<1> QED
  BY <1>1, <1>2, IndexAndBit DEF ArmBit

(* Two bits to an interrupt, the upper one tells the trigger.              *)
LEMMA TriggerPlace ==
  ASSUME NEW i \in Nat, NEW struct, NEW count \in Nat,
         LaidOut(struct, "icfgr", "icfgr", 4, count)
  PROVE  TriggerOf(struct, i) = IF i \div 16 < count THEN ArmBit("icfgr", i) ELSE None
<1>1. ArmFile["icfgr"] = <<24576, 2, 1>> /\ 24576 \div 8 = 3072
  BY DEF ArmFile
<1>2. TriggerOf(struct, i)
        = IF i \div 16 < count THEN 8 * (3072 + (i \div 16) * 4) + ((i % 16) * 2 + 1) ELSE None
  BY <1>1 DEF TriggerOf, At, LaidOut
<1> QED
  BY <1>1, <1>2, IndexAndBit DEF ArmBit

(* The bit of an interrupt is a number, so that it is never None.          *)
LEMMA ArmBitType ==
  ASSUME NEW file \in DOMAIN ArmFile, NEW i \in Nat PROVE ArmBit(file, i) \in Nat
<1>1. ArmFile[file][1] \in Nat /\ ArmFile[file][2] \in Nat /\ ArmFile[file][3] \in Nat
  BY DEF ArmFile
<1>2. ArmFile[file][2] \in {1, 2, 8}
  BY DEF ArmFile
<1> QED
  BY <1>1, <1>2 DEF ArmBit

(* A call about an interrupt and the architecture agree on its place in a  *)
(* register file, wherever there is one.                                   *)
LEMMA PlaceIsArmPlace ==
  ASSUME chip \in Chip, stride = Window,
         NEW file \in DOMAIN ArmFile, NEW i \in Nat, NEW c \in CpuInput,
         file = "igrpmodr" => chip.version # "v2"
  PROVE  Place(file, i, c) = ArmPlace(file, i, c)
<1> DEFINE inRange == IF i < 1024 THEN ArmBit(file, i) ELSE None
<1>1. /\ SPECIAL_END = 1024 /\ (is_private(i) <=> i < 32)
      /\ ArmBit(file, i) \in Nat /\ ArmBit(file, i) # None
  BY AddressingAssumption, IntIdAssumption, ArmBitType
     DEF SPECIAL_END, is_private, is_sgi, is_ppi, None
<1>2. file \in DOMAIN Private0 \cup {"ipriorityr", "icfgr"} /\ "ipriorityr" \notin DOMAIN Private0
      /\ "icfgr" \notin DOMAIN Private0
  BY DEF ArmFile, Private0
<1>3. InGicd(inRange) = IF i < 1024 THEN <<"gicd", ArmBit(file, i)>> ELSE Panic
  BY <1>1 DEF InGicd, In
<1>4. CASE chip.version = "v2"
  <2>1. PlaceV2(file, i) = InGicd(inRange)
    <3>1. CASE file \in DOMAIN Private0
      <4>1. LaidOut("GicdV2", file, file, 4, 32)
        BY <1>4, <3>1, FilesAreLaidOut DEF FilesLaidOut, LaidOut
      <4>2. BitOf("GicdV2", file, i) = inRange
        BY <3>1, <4>1, BitPlace, IndexAndBit
      <4> QED
        BY <1>2, <3>1, <4>2 DEF PlaceV2
    <3>2. CASE file = "ipriorityr"
      <4>1. LaidOut("GicdV2", "ipriorityr", "ipriorityr", 4, 256)
        BY FilesAreLaidOut DEF FilesLaidOut, LaidOut
      <4>2. WordByteOf("GicdV2", i) = IF i \div 4 < 256 THEN ArmBit("ipriorityr", i) ELSE None
        BY <4>1, WordBytePlace
      <4>3. i \div 4 < 256 <=> i < 1024
        BY IndexAndBit
      <4> QED
        BY <3>2, <4>2, <4>3 DEF PlaceV2, WordByteOf
    <3>3. CASE file = "icfgr"
      <4>1. LaidOut("GicdV2", "icfgr", "icfgr", 4, 64)
        BY FilesAreLaidOut DEF FilesLaidOut, LaidOut
      <4>2. TriggerOf("GicdV2", i) = inRange
        BY <3>3, <4>1, TriggerPlace, IndexAndBit
      <4> QED
        BY <3>3, <4>2 DEF PlaceV2
    <3> QED
      BY <1>2, <3>1, <3>2, <3>3
  <2> QED
    BY <1>1, <1>3, <1>4, <2>1 DEF Place, ArmPlace, ArmBit
<1>5. CASE chip.version # "v2" /\ ~is_private(i)
  <2>1. PlaceV3(file, i, c) = InGicd(inRange)
    <3>1. CASE file \in DOMAIN Private0
      <4>1. LaidOut("GicdV3", file, file, 4, 32)
        BY <3>1, FilesAreLaidOut DEF FilesLaidOut, LaidOut
      <4>2. BitOf("GicdV3", file, i) = inRange
        BY <3>1, <4>1, BitPlace, IndexAndBit
      <4> QED
        BY <1>2, <1>5, <3>1, <4>2 DEF PlaceV3
    <3>2. CASE file = "ipriorityr"
      <4>1. LaidOut("GicdV3", "ipriorityr", "ipriorityr", 1, 1024)
        BY FilesAreLaidOut DEF FilesLaidOut, LaidOut
      <4>2. ByteOf("GicdV3", i) = inRange
        BY <3>2, <4>1, BytePlace
      <4> QED
        BY <1>5, <3>2, <4>2 DEF PlaceV3
    <3>3. CASE file = "icfgr"
      <4>1. LaidOut("GicdV3", "icfgr", "icfgr", 4, 64)
        BY FilesAreLaidOut DEF FilesLaidOut, LaidOut
      <4>2. TriggerOf("GicdV3", i) = inRange
        BY <3>3, <4>1, TriggerPlace, IndexAndBit
      <4> QED
        BY <1>5, <3>3, <4>2 DEF PlaceV3
    <3> QED
      BY <1>2, <3>1, <3>2, <3>3
  <2> QED
    BY <1>1, <1>3, <1>5, <2>1 DEF Place, ArmPlace, ArmBit
<1>6. CASE chip.version # "v2" /\ is_private(i)
  <2>1. PlaceV3(file, i, c) = InSgi(c, ArmBit(file, i))
    <3>1. CASE file \in DOMAIN Private0
      <4>1. LaidOut("Sgi", Private0[file], file, 4, 1)
        BY <3>1, FilesAreLaidOut DEF FilesLaidOut, LaidOut
      <4>2. BitOf("Sgi", Private0[file], i) = ArmBit(file, i)
        BY <1>1, <1>6, <3>1, <4>1, BitPlace, IndexAndBit
      <4> QED
        BY <1>2, <1>6, <3>1, <4>2 DEF PlaceV3
    <3>2. CASE file = "ipriorityr"
      <4>1. LaidOut("Sgi", "ipriorityr", "ipriorityr", 1, 32)
        BY FilesAreLaidOut DEF FilesLaidOut, LaidOut
      <4>2. ByteOf("Sgi", i) = ArmBit(file, i)
        BY <1>1, <1>6, <3>2, <4>1, BytePlace
      <4> QED
        BY <1>6, <3>2, <4>2 DEF PlaceV3
    <3>3. CASE file = "icfgr"
      <4>1. LaidOut("Sgi", "icfgr", "icfgr", 4, 6)
        BY FilesAreLaidOut DEF FilesLaidOut, LaidOut
      <4>2. TriggerOf("Sgi", i) = ArmBit(file, i)
        BY <1>1, <1>6, <3>3, <4>1, TriggerPlace, IndexAndBit
      <4> QED
        BY <1>6, <3>3, <4>2 DEF PlaceV3
    <3> QED
      BY <1>2, <3>1, <3>2, <3>3
  <2>2. InSgi(c, ArmBit(file, i))
          = IF c \in Cpu THEN <<"gicr", 8 * (c * Window + FrameSize) + ArmBit(file, i)>> ELSE Panic
    BY <1>1, FilesAreLaidOut DEF InSgi, In, FilesLaidOut
  <2> QED
    BY <1>1, <1>6, <2>1, <2>2 DEF Place, ArmPlace, ArmBit
<1> QED
  BY <1>4, <1>5, <1>6

(* x is the bit of interrupt k in register file f.                         *)
IsBit(f, k, x) ==
  \/ f = "igroupr" /\ x = 1024 + k
  \/ f = "isenabler" /\ x = 2048 + k
  \/ f = "icenabler" /\ x = 3072 + k
  \/ f = "ipriorityr" /\ x = 8192 + 8 * k
  \/ f = "icfgr" /\ x = 24577 + 2 * k
  \/ f = "igrpmodr" /\ x = 26624 + k

(* The bits that the architecture gives the interrupts in each file.       *)
LEMMA ArmBitIs ==
  ASSUME NEW f \in DOMAIN ArmFile, NEW k \in Nat PROVE IsBit(f, k, ArmBit(f, k))
  BY DEF ArmBit, ArmFile, IsBit

(* What the driver accesses for one interrupt is nothing of another, in no *)
(* register file and on no core: two accesses that do not panic are at the *)
(* same place only if they are for the same file, the same interrupt and,  *)
(* for a private one of a GICv3, the same core.  This is what lets the     *)
(* other modules name bits by file, interrupt and frame.                   *)
THEOREM PlacesApart ==
  ASSUME chip \in Chip, stride = Window,
         NEW file \in DOMAIN ArmFile, NEW other \in DOMAIN ArmFile,
         NEW i \in Nat, NEW j \in Nat, NEW c \in CpuInput, NEW d \in CpuInput,
         chip.version = "v2" => file # "igrpmodr" /\ other # "igrpmodr",
         Place(file, i, c) # Panic, Place(file, i, c) = Place(other, j, d)
  PROVE  /\ file = other /\ i = j
         /\ chip.version # "v2" /\ is_private(i) => c = d
<1> DEFINE a == ArmBit(file, i)
           b == ArmBit(other, j)
           banked(k) == chip.version # "v2" /\ is_private(k)
<1>1. ArmPlace(file, i, c) # Panic /\ ArmPlace(file, i, c) = ArmPlace(other, j, d)
  BY PlaceIsArmPlace
<1>2. SPECIAL_END = 1024 /\ Window \in {131072, 262144}
  BY AddressingAssumption, WindowSize DEF SPECIAL_END
<1>3. /\ i < 1024
      /\ banked(i) => c \in Cpu /\ ArmPlace(file, i, c) = <<"gicr", 8 * (c * Window + FrameSize) + a>>
      /\ ~banked(i) => ArmPlace(file, i, c) = <<"gicd", a>>
  BY <1>1, <1>2 DEF ArmPlace, ArmBit
<1>4. /\ j < 1024
      /\ banked(j) => d \in Cpu /\ ArmPlace(other, j, d) = <<"gicr", 8 * (d * Window + FrameSize) + b>>
      /\ ~banked(j) => ArmPlace(other, j, d) = <<"gicd", b>>
  BY <1>1, <1>2 DEF ArmPlace, ArmBit
<1>5. i \in 0 .. 1023 /\ j \in 0 .. 1023
  BY <1>3, <1>4
<1>6. a \in Nat /\ a < 32768 /\ b \in Nat /\ b < 32768 /\ (a = b => file = other /\ i = j)
  <2>1. IsBit(file, i, a) /\ IsBit(other, j, b)
    BY ArmBitIs
  <2> HIDE DEF a, b
  <2> QED
    BY <1>5, <2>1 DEF IsBit
<1> HIDE DEF a, b, banked
<1>7. CASE ~banked(i)
  <2>1. ArmPlace(file, i, c) = <<"gicd", a>> /\ ArmPlace(other, j, d) = <<"gicd", b>>
    BY <1>1, <1>3, <1>4, <1>7
  <2>2. ArmPlace(file, i, c)[2] = a /\ ArmPlace(other, j, d)[2] = b
    BY <2>1
  <2>3. a = b
    BY <1>1, <2>2
  <2> QED
    BY <1>6, <1>7, <2>3 DEF banked
<1>8. CASE banked(i)
  <2>1. banked(j) /\ 8 * (c * Window + FrameSize) + a = 8 * (d * Window + FrameSize) + b
    BY <1>1, <1>3, <1>4, <1>8
  <2>2. c \in Nat /\ d \in Nat
    <3>1. c \in Cpu /\ d \in Cpu
      BY <1>3, <1>4, <1>8, <2>1
    <3> QED
      BY <3>1, AddressingAssumption DEF Cpu
  <2>3. c = d /\ a = b
    <3>1. CASE Window = 131072
      BY <1>6, <2>1, <2>2, <3>1 DEF FrameSize
    <3>2. CASE Window = 262144
      BY <1>6, <2>1, <2>2, <3>2 DEF FrameSize
    <3> QED
      BY <1>2, <3>1, <3>2
  <2> QED
    BY <1>6, <2>3
<1> QED
  BY <1>7, <1>8 DEF banked

-----------------------------------------------------------------------------
(***************************************************************************)
(* The invariant.                                                          *)
(***************************************************************************)

(* GicV3::new has not run, or has found the windows of this chip.          *)
StrideIsWindow == stride \in {0, Window}

(* The inductive invariant.                                                *)
IInv ==
  /\ chip \in Chip
  /\ StrideIsWindow
  /\ InterruptsReached
  /\ RegistersReached
  /\ LoopsCover
  /\ OwnRedistributor
  /\ CountsTold

(* Each property is about one kind of calls.                               *)
LEMMA OtherCalls ==
  /\ call'.op \notin DOMAIN FilesOf => InterruptsReached'
  /\ call'.op # "register" => RegistersReached'
  /\ call'.op # "loop" => LoopsCover'
  /\ call'.op # "gicr_typer" => OwnRedistributor'
  /\ call'.op # "typer" => CountsTold'
  BY DEF InterruptsReached, RegistersReached, LoopsCover, OwnRedistributor, CountsTold

(* The calls that have a property of their own.                            *)
LEMMA CallNames ==
  DOMAIN FilesOf = {"enable_interrupt", "disable_interrupt", "set_interrupt_priority",
                    "set_trigger", "set_group"}
  BY DEF FilesOf

(* Before the first call nothing has been reached.                         *)
LEMMA InitIInv == Init => IInv
  BY CallNames DEF Init, IInv, StrideIsWindow, InterruptsReached, RegistersReached, LoopsCover,
     OwnRedistributor, CountsTold

(* After GicV3::new, a call changes neither the chip nor the stride.       *)
LEMMA AfterNew ==
  ASSUME IInv, NEW c, NEW r, Called(c, r)
  PROVE  /\ chip \in Chip /\ stride = Window /\ call' = c /\ result' = r
         /\ chip' = chip /\ stride' = stride /\ Window' = Window
         /\ Window \in {131072, 262144}
  BY WindowSize DEF IInv, StrideIsWindow, Called, Window

(* When all accesses of a call panic or none does, it makes none or all.   *)
LEMMA PanicsAtOnce ==
  ASSUME NEW op \in DOMAIN FilesOf, NEW places,
         places = [k \in DOMAIN FilesOf[op] |-> places[k]],
         \A j, k \in DOMAIN FilesOf[op] : places[j] = Panic <=> places[k] = Panic
  PROVE  UpToPanic(places) = IF Panic \in Range(places) THEN <<Panic>> ELSE places
<1> DEFINE D == DOMAIN FilesOf[op]
<1>1. D = 1 .. 1 \/ D = 1 .. 2
  BY DEF FilesOf
<1>d. DOMAIN places = D
  OBVIOUS
<1>2. CASE Panic \in Range(places)
  <2>1. \A k \in D : places[k] = Panic
    BY <1>2, <1>d DEF Range
  <2>2. {n \in D : \A m \in D : m < n => places[m] # Panic} = 1 .. 1
    BY <1>1, <2>1
  <2> QED
    BY <1>1, <1>d, <1>2, <2>1, <2>2 DEF UpToPanic
<1>3. CASE Panic \notin Range(places)
  <2>1. \A k \in D : places[k] # Panic
    BY <1>3, <1>d DEF Range
  <2> QED
    BY <1>3, <1>d, <2>1 DEF UpToPanic
<1> QED
  BY <1>2, <1>3

(* A call about one interrupt reaches the interrupt's own bits.            *)
LEMMA ConfigureReaches ==
  ASSUME IInv,
         NEW op \in DOMAIN FilesOf, NEW i \in IntIdInput, NEW c \in CpuInput, Configure(op, i, c)
  PROVE  InterruptsReached'
<1>1. chip \in Chip /\ stride = Window /\ chip' = chip /\ i \in Nat
  BY AddressingAssumption DEF IInv, StrideIsWindow, Configure, Called
<1>2. \A k \in DOMAIN FilesOf[op] :
        /\ FilesOf[op][k] \in DOMAIN ArmFile
        /\ FilesOf[op][k] = "igrpmodr" => op = "set_group"
  BY DEF FilesOf, ArmFile
<1>3. \A k \in DOMAIN FilesOf[op] : Place(FilesOf[op][k], i, c) = ArmPlace(FilesOf[op][k], i, c)
  BY <1>1, <1>2, PlaceIsArmPlace DEF Configure
<1>4. [k \in DOMAIN FilesOf[op] |-> Place(FilesOf[op][k], i, c)]
        = [k \in DOMAIN FilesOf[op] |-> ArmPlace(FilesOf[op][k], i, c)]
  BY <1>3
<1>5. \A file : ArmPlace(file, i, c)' = ArmPlace(file, i, c)
  BY <1>1 DEF ArmPlace, Window
<1>6. call' = [op |-> op, i |-> i, c |-> c]
  BY DEF Configure, Called
<1> DEFINE places == [k \in DOMAIN FilesOf[op] |-> ArmPlace(FilesOf[op][k], i, c)]
<1>7. result' = UpToPanic(places)
  BY <1>4 DEF Configure, Called
<1>8. \A j, k \in DOMAIN FilesOf[op] : places[j] = Panic <=> places[k] = Panic
  BY DEF ArmPlace, Panic
<1>9. result' = IF Panic \in Range(places) THEN <<Panic>> ELSE places
  BY <1>7, <1>8, PanicsAtOnce
<1> QED
  BY <1>1, <1>6, <1>9 DEF InterruptsReached, ArmPlace, Window

(* A named register is reached where the architecture has it.              *)
LEMMA RegisterReaches ==
  ASSUME IInv, NEW struct \in DOMAIN ArmRegister, NEW field \in DOMAIN ArmRegister[struct],
         NEW c \in CpuInput, Register(struct, field, c)
  PROVE  RegistersReached'
<1> DEFINE a == ArmRegister[struct][field]
           at == At(struct, field, 0, 0)
           r == CASE struct = "Gicr" -> InGicr(c, at)
                  [] struct = "Sgi" -> InSgi(c, at)
                  [] struct = "Gicc" -> InGicc(at)
                  [] OTHER -> InGicd(at)
           inGicr == <<"gicr", 8 * c * Window + 8 * a>>
           inSgi == <<"gicr", 8 * (c * Window + FrameSize) + 8 * a>>
<1>1. Called([op |-> "register", struct |-> struct, field |-> field, c |-> c], <<r>>)
  BY DEF Register
<1>2. at = 8 * a /\ a \in Nat /\ at # None
  BY RegisterAt DEF None
<1>3. struct \in {"GicdV3", "Gicr", "Sgi", "GicdV2", "Gicc"}
  BY DEF ArmRegister
<1> HIDE DEF a, at, r
<1>4. /\ stride = Window /\ Window \in {131072, 262144} /\ Window' = Window
      /\ call' = [op |-> "register", struct |-> struct, field |-> field, c |-> c]
      /\ result' = <<r>>
  BY <1>1, AfterNew
<1>5. c \in Cpu => c \in Nat
  BY AddressingAssumption DEF Cpu
<1>6. struct \in {"GicdV3", "GicdV2"} => r = <<"gicd", 8 * a>>
  BY <1>2 DEF r, InGicd, In
<1>7. struct = "Gicc" => r = <<"gicc", 8 * a>>
  BY <1>2 DEF r, InGicc, In
<1>8. struct \in {"Gicr", "Sgi"} /\ c \notin Cpu => r = Panic
  BY DEF r, InGicr, InSgi
<1>9. struct = "Gicr" /\ c \in Cpu => r = inGicr
  <2>1. SUFFICES ASSUME struct = "Gicr", c \in Cpu PROVE r = inGicr
    OBVIOUS
  <2>2. r = <<"gicr", 8 * (c * Window) + 8 * a>>
    BY <1>2, <1>4, <2>1 DEF r, InGicr, In
  <2>3. 8 * (c * Window) = 8 * c * Window
    BY <1>4, <1>5, <2>1
  <2> QED
    BY <2>2, <2>3
<1>10. struct = "Sgi" /\ c \in Cpu => r = inSgi
  BY <1>2, <1>4, FilesAreLaidOut DEF r, InSgi, In, FilesLaidOut
<1> DEFINE e == IF struct \in {"GicdV3", "GicdV2"} THEN <<"gicd", 8 * a>>
                ELSE IF struct = "Gicc" THEN <<"gicc", 8 * a>>
                ELSE IF c \notin Cpu THEN Panic
                ELSE IF struct = "Gicr" THEN inGicr
                ELSE inSgi
<1>11. result' = <<e>> => RegistersReached'
  BY <1>4, FilesAreLaidOut DEF RegistersReached, a
<1>12. e = r
  <2> HIDE DEF inGicr, inSgi
  <2>1. CASE struct \in {"GicdV3", "GicdV2"}
    BY <1>6, <2>1
  <2>2. CASE struct = "Gicc"
    BY <1>7, <2>2
  <2>3. CASE struct \in {"Gicr", "Sgi"} /\ c \notin Cpu
    BY <1>8, <2>3
  <2>4. CASE struct = "Gicr" /\ c \in Cpu
    BY <1>9, <2>4
  <2>5. CASE struct = "Sgi" /\ c \in Cpu
    BY <1>10, <2>5
  <2> QED
    BY <1>3, <2>1, <2>2, <2>3, <2>4, <2>5
<1> HIDE DEF e
<1> QED
  BY <1>4, <1>11, <1>12

(* gicr_typer answers for the core asked about.                            *)
LEMMA GicrTyperOwn ==
  ASSUME IInv, NEW c \in CpuInput, GicrTyper(c)
  PROVE  OwnRedistributor'
<1> DEFINE at == InGicr(c, At("Gicr", "typer", 0, 0))
           owners == {d \in Cpu : at = <<"gicr", 8 * (d * Window + ArmRegister.Gicr.typer)>>}
           told(v) == [mpidr |-> core_mpidr(v), number |-> processor_number(v),
                       eppis |-> max_eppi_count(v), model |-> model_id(chip.iidr)]
           r == IF at = Panic \/ owners = {} THEN <<Panic>>
                ELSE told(GicrTyperValue(CHOOSE d \in owners : TRUE))
<1>1. Called([op |-> "gicr_typer", c |-> c], r)
  BY DEF GicrTyper
<1>2. At("Gicr", "typer", 0, 0) = 64 /\ ArmRegister.Gicr.typer = 8
  <2>1. "Gicr" \in DOMAIN ArmRegister /\ "typer" \in DOMAIN ArmRegister["Gicr"]
        /\ ArmRegister["Gicr"]["typer"] = 8
    BY DEF ArmRegister, ArmGicr
  <2> QED
    BY <2>1, RegisterAt
<1> HIDE DEF r
<1>3. /\ chip \in Chip /\ chip' = chip /\ stride = Window /\ Window \in {131072, 262144}
      /\ call' = [op |-> "gicr_typer", c |-> c] /\ result' = r
  BY <1>1, AfterNew
<1>4. c \notin Cpu => r = <<Panic>>
  BY DEF r, InGicr
<1>5. ASSUME c \in Cpu PROVE r = told(GicrTyperValue(c))
  <2>1. at = <<"gicr", 8 * (c * Window) + 64>>
    BY <1>2, <1>3, <1>5 DEF InGicr, In, None
  <2>2. \A d \in Cpu : 8 * (c * Window) + 64 = 8 * (d * Window + 8) <=> d = c
    <3> SUFFICES ASSUME NEW d \in Cpu
                 PROVE  8 * (c * Window) + 64 = 8 * (d * Window + 8) <=> d = c
      OBVIOUS
    <3>1. c \in Nat /\ d \in Nat
      BY <1>5, AddressingAssumption DEF Cpu
    <3>2. CASE Window = 131072
      BY <3>1, <3>2
    <3>3. CASE Window = 262144
      BY <3>1, <3>3
    <3> QED
      BY <1>3, <3>2, <3>3
  <2>3. owners = {c}
    BY <1>2, <1>5, <2>1, <2>2
  <2>4. at # Panic
    BY <2>1 DEF Panic
  <2> HIDE DEF at, owners, told
  <2>5. (CHOOSE d \in {c} : TRUE) = c
    OBVIOUS
  <2> QED
    BY <2>3, <2>4, <2>5 DEF r
<1>6. ASSUME c \in Cpu
      PROVE  LET a == AffinityOf[c]
             IN  told(GicrTyperValue(c))
                   = [mpidr |-> <<a[0], a[1], a[2], 0, a[3], 0, 0, 0>>, number |-> c,
                      eppis |-> chip.eppis, model |-> chip.model]
  <2> DEFINE v == GicrTyperValue(c)
             a == AffinityOf[c]
  <2>1. /\ BitField(v, 8, 16) = c /\ BitField(v, 27, 5) = EppiBlocks
        /\ \A k \in 0 .. 3 : BitField(v, 32 + 8 * k, 8) = a[k]
    BY <1>3, <1>6, GicrTyperFields
  <2> HIDE DEF v
  <2>2. affinity_value(v)[0] = a[0] /\ affinity_value(v)[1] = a[1]
        /\ affinity_value(v)[2] = a[2] /\ affinity_value(v)[3] = a[3]
    BY <2>1 DEF affinity_value
  <2>3. core_mpidr(v) = <<a[0], a[1], a[2], 0, a[3], 0, 0, 0>>
    BY <2>2 DEF core_mpidr
  <2>4. processor_number(v) = c
    BY <2>1 DEF processor_number
  <2>5. max_eppi_count(v) = chip.eppis
    BY <1>3, <2>1, ChipCounts DEF max_eppi_count
  <2>6. model_id(chip.iidr) = chip.model
    BY <1>3, AddressingAssumption DEF LegalChip, model_id
  <2> QED
    BY <2>3, <2>4, <2>5, <2>6 DEF v
<1> QED
  BY <1>3, <1>4, <1>5, <1>6 DEF OwnRedistributor

(* The words of a file that hold an interrupt.                             *)
LEMMA FirstWords ==
  ASSUME chip \in Chip
  PROVE  {i \in {32 * k : k \in 0 .. 31} : is_private(i) \/ i - SPI_START < chip.spis}
           = {0} \cup {32 * k : k \in 1 .. Lines}
<1>1. \A i \in Nat : is_private(i) <=> i < 32
  BY AddressingAssumption, IntIdAssumption DEF is_private, is_sgi, is_ppi
<1>2. Lines \in 0 .. 31 /\ SPI_START = 32 /\ MAX_SPI_COUNT = 988
      /\ chip.spis = IF 32 * Lines < MAX_SPI_COUNT THEN 32 * Lines ELSE MAX_SPI_COUNT
  BY ChipCounts, AddressingAssumption, IntIdAssumption DEF MAX_SPI_COUNT
<1>3. \A k \in 0 .. 31 : (is_private(32 * k) \/ 32 * k - SPI_START < chip.spis) <=> (k = 0 \/ k <= Lines)
  BY <1>1, <1>2
<1> QED
  BY <1>2, <1>3

(* The loops reach the words of the interrupts.                            *)
LEMMA LoopCovers ==
  ASSUME IInv, NEW file \in {"igroupr", "isenabler", "icenabler", "igrpmodr"}, Loop(file)
  PROVE  LoopsCover'
<1> DEFINE first == {0} \cup {32 * k : k \in 1 .. Lines}
           words == {ArmPlace(file, i, c) : i \in first, c \in Cpu}
<1>1. Called([op |-> "loop", file |-> file], LoopPlaces(file))
  BY DEF Loop
<1>2. /\ chip \in Chip /\ chip' = chip /\ stride = Window /\ Window' = Window
      /\ call' = [op |-> "loop", file |-> file] /\ result' = LoopPlaces(file)
  BY <1>1, AfterNew
<1>3. LoopsCover' <=> IF chip.version = "v2" THEN words \subseteq Range(result')
                      ELSE words = Range(result')
  <2>1. \A i, c : ArmPlace(file, i, c)' = ArmPlace(file, i, c)
    BY <1>2 DEF ArmPlace, Window
  <2>2. {i \in {32 * k : k \in 0 .. 31} : is_private(i) \/ i - SPI_START < chip'.spis} = first
    BY <1>2, FirstWords
  <2> HIDE DEF first
  <2> QED
    BY <1>2, <2>1, <2>2 DEF LoopsCover
<1>4. file \in DOMAIN ArmFile /\ file \in DOMAIN Private0 /\ (file = "igrpmodr" => chip.version # "v2")
  BY DEF ArmFile, Private0, Loop
<1>5. 0 \in Cpu /\ (\A c \in Cpu : c \in Nat /\ c \in CpuInput) /\ CpuCount \in Nat
  BY AddressingAssumption DEF Cpu, CpuInput
<1>6. \A i \in Nat, c \in Cpu : ArmPlace(file, i, c) = Place(file, i, c)
  BY <1>2, <1>4, <1>5, PlaceIsArmPlace
<1>7. Lines \in 0 .. 31 /\ num_spis(TyperValue) = chip.spis
  BY <1>2, ChipCounts, SpisCounted
<1>8. \A k \in Nat : (32 * k) \div 32 = k /\ (32 * k) % 32 = 0 /\ 32 * k \in Nat
  OBVIOUS
<1>9. CASE chip.version = "v2"
  <2> DEFINE s == [k \in 1 .. 32 |-> InGicd(At("GicdV2", file, k - 1, 0))]
  <2>1. result' = s
    BY <1>2, <1>9 DEF LoopPlaces
  <2>2. ASSUME NEW k \in 0 .. 31, NEW c \in Cpu PROVE ArmPlace(file, 32 * k, c) \in Range(s)
    <3>1. ArmPlace(file, 32 * k, c) = PlaceV2(file, 32 * k)
      BY <1>6, <1>8, <1>9 DEF Place
    <3>2. PlaceV2(file, 32 * k) = InGicd(At("GicdV2", file, k, 0))
      BY <1>8 DEF PlaceV2, BitOf
    <3>3. k + 1 \in DOMAIN s /\ s[k + 1] = InGicd(At("GicdV2", file, k, 0))
      OBVIOUS
    <3> QED
      BY <3>1, <3>2, <3>3 DEF Range
  <2>3. \A i \in first : \E k \in 0 .. 31 : i = 32 * k
    BY <1>7
  <2> QED
    BY <1>3, <1>9, <2>1, <2>2, <2>3
<1>10. CASE chip.version # "v2"
  <2> DEFINE s == [k \in 1 .. Lines |-> InGicd(At("GicdV3", file, k, 0))]
             t == [k \in 1 .. CpuCount |-> InSgi(k - 1, At("Sgi", Private0[file], 0, 0))]
  <2>1. result' = s \o t
    BY <1>2, <1>7, <1>10 DEF LoopPlaces, Lines
  <2>2. Range(s \o t) = Range(s) \cup Range(t)
    <3> DEFINE S == Range(s) \cup Range(t)
    <3>1. DOMAIN s = 1 .. Lines /\ DOMAIN t = 1 .. CpuCount
      OBVIOUS
    <3>2. s = [k \in 1 .. Lines |-> s[k]] /\ t = [k \in 1 .. CpuCount |-> t[k]]
      OBVIOUS
    <3> HIDE DEF s, t
    <3>3. (\A k \in 1 .. Lines : s[k] \in S) /\ (\A k \in 1 .. CpuCount : t[k] \in S)
      BY <3>1 DEF Range
    <3> HIDE DEF S
    <3>4. s \in [1 .. Lines -> S] /\ t \in [1 .. CpuCount -> S]
      BY <3>2, <3>3
    <3>5. s \in Seq(S) /\ t \in Seq(S)
      BY <1>5, <1>7, <3>4, SeqDef
    <3> QED
      BY <3>5, RangeConcatenation
  <2>3. \A i \in Nat : is_private(i) <=> i < 32
    BY AddressingAssumption, IntIdAssumption DEF is_private, is_sgi, is_ppi
  <2>4. \A k \in 1 .. Lines, c \in Cpu : ArmPlace(file, 32 * k, c) = s[k]
    <3> SUFFICES ASSUME NEW k \in 1 .. Lines, NEW c \in Cpu PROVE ArmPlace(file, 32 * k, c) = s[k]
      OBVIOUS
    <3>1. k \in Nat /\ ~is_private(32 * k) /\ 32 * k \in Nat
      BY <1>7, <2>3
    <3>2. ArmPlace(file, 32 * k, c) = PlaceV3(file, 32 * k, c)
      BY <1>6, <1>10, <3>1 DEF Place
    <3>3. PlaceV3(file, 32 * k, c) = InGicd(At("GicdV3", file, k, 0))
      BY <1>8, <3>1 DEF PlaceV3, BitOf
    <3> QED
      BY <3>2, <3>3
  <2>5. \A c \in Cpu : ArmPlace(file, 0, c) = t[c + 1] /\ c + 1 \in 1 .. CpuCount
    <3> SUFFICES ASSUME NEW c \in Cpu
                 PROVE  ArmPlace(file, 0, c) = t[c + 1] /\ c + 1 \in 1 .. CpuCount
      OBVIOUS
    <3>1. is_private(0) /\ 0 \div 32 = 0 /\ 0 % 32 = 0 /\ 0 \in Nat
      BY <2>3
    <3>2. ArmPlace(file, 0, c) = PlaceV3(file, 0, c)
      BY <1>6, <1>10, <3>1 DEF Place
    <3>3. PlaceV3(file, 0, c) = InSgi(c, At("Sgi", Private0[file], 0, 0))
      BY <3>1 DEF PlaceV3, BitOf
    <3>4. c + 1 \in 1 .. CpuCount /\ (c + 1) - 1 = c
      BY <1>5 DEF Cpu
    <3> QED
      BY <3>2, <3>3, <3>4
  <2>6. DOMAIN s = 1 .. Lines /\ DOMAIN t = 1 .. CpuCount
    OBVIOUS
  <2> HIDE DEF s, t
  <2>7. words \subseteq Range(s) \cup Range(t)
    <3>1. \A k \in 1 .. Lines, c \in Cpu : ArmPlace(file, 32 * k, c) \in Range(s)
      BY <2>4, <2>6 DEF Range
    <3>2. \A c \in Cpu : ArmPlace(file, 0, c) \in Range(t)
      BY <2>5, <2>6 DEF Range
    <3> QED
      BY <3>1, <3>2
  <2>8. Range(s) \subseteq words
    <3>1. \A k \in 1 .. Lines : s[k] = ArmPlace(file, 32 * k, 0) /\ 32 * k \in first
      BY <1>5, <2>4
    <3> HIDE DEF first
    <3>2. \A k \in 1 .. Lines : s[k] \in words
      BY <1>5, <3>1
    <3> HIDE DEF words
    <3> QED
      BY <2>6, <3>2 DEF Range
  <2>9. Range(t) \subseteq words
    <3>1. \A k \in 1 .. CpuCount : k - 1 \in Cpu /\ (k - 1) + 1 = k
      BY <1>5 DEF Cpu
    <3>2. \A k \in 1 .. CpuCount : t[k] = ArmPlace(file, 0, k - 1) /\ 0 \in first
      BY <2>5, <3>1
    <3> HIDE DEF first
    <3>3. \A k \in 1 .. CpuCount : t[k] \in words
      BY <3>1, <3>2
    <3> HIDE DEF words
    <3> QED
      BY <2>6, <3>3 DEF Range
  <2> QED
    BY <1>3, <1>10, <2>1, <2>2, <2>7, <2>8, <2>9
<1> QED
  BY <1>9, <1>10

(* Every step keeps the invariant.                                         *)
LEMMA NextIInv == IInv /\ [Next]_vars => IInv'
<1> SUFFICES ASSUME IInv, [Next]_vars PROVE IInv'
  OBVIOUS
<1> DEFINE Unmoved == chip \in Chip /\ chip' = chip /\ StrideIsWindow'
<1>1. ASSUME NEW c, NEW r, Called(c, r) PROVE Unmoved /\ call' = c
  BY <1>1, AfterNew DEF StrideIsWindow
<1>2. CASE New
  <2>1. chip' \in Chip /\ StrideIsWindow' /\ call'.op = "new"
    BY <1>2, WindowSize DEF IInv, New, StrideIsWindow, Window
  <2> QED
    BY <2>1, OtherCalls, CallNames DEF IInv
<1>3. CASE Typer
  <2>1. Unmoved /\ call'.op = "typer"
    BY <1>1, <1>3 DEF Typer
  <2>2. CountsTold'
    BY <1>3, TyperTells DEF IInv
  <2> QED
    BY <2>1, <2>2, OtherCalls, CallNames DEF IInv
<1>4. ASSUME NEW c \in CpuInput, GicrTyper(c) PROVE IInv'
  <2>1. Unmoved /\ call'.op = "gicr_typer"
    BY <1>1, <1>4 DEF GicrTyper
  <2>2. OwnRedistributor'
    BY <1>4, GicrTyperOwn
  <2> QED
    BY <2>1, <2>2, OtherCalls, CallNames DEF IInv
<1>5. ASSUME NEW file \in {"igroupr", "isenabler", "icenabler", "igrpmodr"}, Loop(file)
      PROVE  IInv'
  <2>1. Unmoved /\ call'.op = "loop"
    BY <1>1, <1>5 DEF Loop
  <2>2. LoopsCover'
    BY <1>5, LoopCovers
  <2> QED
    BY <2>1, <2>2, OtherCalls, CallNames DEF IInv
<1>6. ASSUME NEW c \in CpuInput, NEW op \in DOMAIN FilesOf, NEW i \in IntIdInput, Configure(op, i, c)
      PROVE  IInv'
  <2>1. Unmoved /\ call'.op = op
    BY <1>1, <1>6 DEF Configure
  <2>2. InterruptsReached'
    BY <1>6, ConfigureReaches
  <2> QED
    BY <1>6, <2>1, <2>2, OtherCalls, CallNames DEF IInv
<1>7. ASSUME NEW c \in CpuInput, NEW struct \in DOMAIN ArmRegister,
             NEW field \in DOMAIN ArmRegister[struct], Register(struct, field, c)
      PROVE  IInv'
  <2>1. Unmoved /\ call'.op = "register"
    BY <1>1, <1>7 DEF Register
  <2>2. RegistersReached'
    BY <1>7, RegisterReaches
  <2> QED
    BY <2>1, <2>2, OtherCalls, CallNames DEF IInv
<1>8. CASE UNCHANGED vars
  <2>1. chip' = chip /\ stride' = stride /\ call' = call /\ result' = result
    BY <1>8 DEF vars
  <2>2. chip' \in Chip /\ StrideIsWindow'
    BY <2>1 DEF IInv, StrideIsWindow, Window
  <2>3. InterruptsReached'
    BY <2>1 DEF IInv, InterruptsReached, ArmPlace, Window
  <2>4. RegistersReached'
    BY <2>1 DEF IInv, RegistersReached, Window
  <2>5. LoopsCover'
    BY <2>1 DEF IInv, LoopsCover, ArmPlace, Window
  <2>6. OwnRedistributor'
    BY <2>1 DEF IInv, OwnRedistributor
  <2>7. CountsTold'
    BY <2>1 DEF IInv, CountsTold, Lines, Supported
  <2> QED
    BY <2>2, <2>3, <2>4, <2>5, <2>6, <2>7 DEF IInv
<1> QED
  BY <1>2, <1>3, <1>4, <1>5, <1>6, <1>7, <1>8 DEF Next

(* The inductive invariant holds.                                          *)
LEMMA Always == Spec => []IInv
<1>1. Init => IInv
  BY InitIInv
<1>2. IInv /\ [Next]_vars => IInv'
  BY NextIInv
<1> QED
  BY <1>1, <1>2, PTL DEF Spec

(* GicV3::new finds the distance between the redistributors of every chip, *)
(* with the frames for virtual LPIs and without (gicv3.rs:73-92).          *)
THEOREM StrideFound == Spec => []StrideIsWindow
<1>1. IInv => StrideIsWindow
  BY DEF IInv
<1> QED
  BY <1>1, Always, PTL

(* A call about an interrupt reaches that interrupt's own bits, in the     *)
(* frame of the core named, or panics at its first access: set_group never *)
(* leaves an interrupt between two groups with one register written        *)
(* (gicv3.rs:195-208, 255-324, 424-451, gicv2.rs:60-80, 109-132).          *)
THEOREM ReachesItsBits == Spec => []InterruptsReached
<1>1. IInv => InterruptsReached
  BY DEF IInv
<1> QED
  BY <1>1, Always, PTL

(* Every register of the structs is where the architecture has it, in the  *)
(* frame of the core named (gicv3/registers.rs:339-660, gicv2/registers.rs)*)
(* and gicv3.rs:424-451).                                                  *)
THEOREM RegistersWhereTheyAre == Spec => []RegistersReached
<1>1. IInv => RegistersReached
  BY DEF IInv
<1> QED
  BY <1>1, Always, PTL

(* The loops of setup and enable_all_interrupts reach every interrupt that *)
(* exists, the private ones on every core, and on a GICv3 no other, for    *)
(* every number of interrupts and cores (gicv3.rs:149-193, 210-252,        *)
(* gicv2.rs:54-57, 82-96).                                                 *)
THEOREM LoopsReachAll == Spec => []LoopsCover
<1>1. IInv => LoopsCover
  BY DEF IInv
<1> QED
  BY <1>1, Always, PTL

(* gicr_typer answers for the redistributor of the core named, and its     *)
(* MPIDR is the core's, for every assignment of affinities.                *)
THEOREM FindsItsRedistributor == Spec => []OwnRedistributor
<1>1. IInv => OwnRedistributor
  BY DEF IInv
<1> QED
  BY <1>1, Always, PTL

(* The getters of Typer tell the counts and features of every chip.        *)
THEOREM TellsTheCounts == Spec => []CountsTold
<1>1. IInv => CountsTold
  BY DEF IInv
<1> QED
  BY <1>1, Always, PTL
=============================================================================
