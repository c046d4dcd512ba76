---------------------------- MODULE FramesLemmas ----------------------------
(***************************************************************************)
(* What the helpers of GicV3Frames return, for every geometry.             *)
(***************************************************************************)
EXTENDS GicV3Frames, TLAPS

(* Register words, SPI bounds and frames have the types the modules use.   *)
LEMMA Geometry ==
  /\ RegBits \in Nat \ {0}
  /\ RegBits * ItLines \in Nat
  /\ RegBits * (ItLines + 1) = RegBits * ItLines + RegBits
  /\ num_spis \in Nat
  /\ num_spis <= RegBits * ItLines
  /\ max_reg \in Nat
  /\ max_reg <= RegBits * (ItLines + 1)
<1>1. SPI_START \in Nat \ {0} /\ ItLines \in Nat /\ MAX_SPI_COUNT \in Nat
  BY IntIdAssumption, FramesAssumption, CpuCountAssumption DEF MAX_SPI_COUNT
<1>2. SPI_START * ItLines \in Nat
  BY <1>1
<1>3. SPI_START * (ItLines + 1) = SPI_START * ItLines + SPI_START
  BY <1>1
<1> QED
  BY <1>1, <1>2, <1>3 DEF RegBits, num_spis, max_reg

(* The private identifiers fill one word, the SPIs follow them, and both   *)
(* lie in the implemented registers.                                       *)
LEMMA IdsCover ==
  /\ PrivateId \subseteq Ids
  /\ SpiId \subseteq Ids
  /\ IntIds \subseteq Ids
  /\ PrivateId \cap SpiId = {}
  /\ Gicd \in Frame /\ Gicd \notin Cpu /\ Cpu \subseteq Frame
<1>1. SPI_START \in Nat /\ RegBits = SPI_START
  BY IntIdAssumption DEF RegBits
<1>2. PrivateId \subseteq Ids /\ SpiId \subseteq Ids /\ PrivateId \cap SpiId = {}
  BY Geometry, <1>1 DEF PrivateId, SpiId, Ids
<1>3. Gicd \notin Cpu
  BY FramesAssumption, CpuCountAssumption DEF Gicd, Cpu
<1> QED
  BY <1>2, <1>3 DEF IntIds, Frame

(* modify_bit changes the named bit and no other bit of the file.          *)
LEMMA ModifyBit ==
  ASSUME NEW file \in SUBSET Ids, NEW i \in Ids
  PROVE  /\ modify_bit(file, i, TRUE) = file \cup {i}
         /\ modify_bit(file, i, FALSE) = file \ {i}
<1>1. i \in WordOf(i)
  BY DEF WordOf
<1> QED
  BY <1>1 DEF modify_bit

(* A call on an implemented interrupt addresses an existing line.          *)
LEMMA FrameOfLine ==
  ASSUME NEW i \in IntIds, NEW c \in Cpu
  PROVE  <<FrameOf(i, c), i>> \in Line
<1>1. CASE i \in PrivateId
  <2>1. is_private(i)
    BY <1>1, IntIdAssumption DEF PrivateId, is_private, is_sgi, is_ppi
  <2> QED
    BY <1>1, <2>1 DEF FrameOf, Line
<1>2. CASE i \in SpiId
  <2>1. ~is_private(i)
    BY <1>2, IntIdAssumption, Geometry DEF SpiId, is_private, is_sgi, is_ppi
  <2> QED
    BY <1>2, <2>1 DEF FrameOf, Line
<1> QED
  BY <1>1, <1>2 DEF IntIds

(* What a line is.                                                         *)
LEMMA LineType ==
  ASSUME NEW l \in Line
  PROVE  /\ l = <<l[1], l[2]>>
         /\ l[1] \in Frame /\ l[2] \in Ids
         /\ l[1] = Gicd => l[2] \in SpiId
         /\ l[1] # Gicd => l[1] \in Cpu /\ l[2] \in PrivateId
<1> QED
  BY IdsCover DEF Line, Frame

(* The bits a loop over the SPIs writes to the word starting at k are the  *)
(* existing SPIs of that word.                                             *)
LEMMA SpiBitsExact ==
  ASSUME NEW k \in Nat, SPI_START <= k, k < max_reg
  PROVE  /\ SpiBits(k) \subseteq SpiId
         /\ \A i \in SpiId : i \in SpiBits(k) <=> k <= i /\ i < k + RegBits
<1>1. SPI_START \in Nat /\ RegBits = SPI_START
  BY IntIdAssumption DEF RegBits
<1> QED
  BY <1>1, Geometry DEF SpiBits, SpiId
=============================================================================
