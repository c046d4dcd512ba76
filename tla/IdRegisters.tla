---------------------------- MODULE IdRegisters ----------------------------
(***************************************************************************)
(* The identification registers: what the getters of Typer, GicrTyper and  *)
(* GicrIidr make of a register value.  A value is the set of its bits that *)
(* are one.                                                                *)
(***************************************************************************)
EXTENDS IntIdRanges, FiniteSets

(* A shift and a mask: the field of n bits from bit lo, highest bit first. *)
BitField(v, lo, n) ==
  LET value[k \in 0 .. n] ==
        IF k = 0 THEN 0 ELSE 2 * value[k - 1] + (IF lo + n - k \in v THEN 1 ELSE 0)
  IN  value[n]

(* The getters of gicv3::Typer.                                            *)
id_bits(v) == BitField(v, 19, 5) + 1

(* A slip of the next operator: the size of the range, not of its LPIs.    *)
num_lpis_all_ids(v) ==
  IF BitField(v, 11, 5) = 0 THEN 2 ^ id_bits(v) ELSE 2 * 2 ^ BitField(v, 11, 5)

num_lpis(v) ==
  LET n == BitField(v, 11, 5)
  IN  IF n # 0 THEN 2 * 2 ^ n
      ELSE IF 2 ^ id_bits(v) < 8192 THEN 0 ELSE 2 ^ id_bits(v) - 8192

num_spis(v) ==
  IF 32 * BitField(v, 0, 5) < MAX_SPI_COUNT THEN 32 * BitField(v, 0, 5) ELSE MAX_SPI_COUNT

last_espi(v) == max_espi(BitField(v, 27, 5))

num_cpus(v) == BitField(v, 5, 3)

(* The getters that test one bit.                                          *)
TyperFlag ==
  [range_selector_support |-> 26, affinity_3_supported |-> 24, dvi_supported |-> 18,
   lpis_supported |-> 17, mpis_supported |-> 16, has_security_extension |-> 10,
   nmi_supported |-> 9, espi_supported |-> 8]

TyperSupports(v) ==
  {f \in DOMAIN TyperFlag : TyperFlag[f] \in v} \cup (IF 25 \in v THEN {} ELSE {"one_of_n_supported"})

(* GicrTyper.  Bytes 4 to 7 of the register are the affinity of the core.  *)
GicrTyperFlag ==
  [mpam_supported |-> 6, disable_processor_group_supported |-> 5, last_redistributor |-> 4,
   direct_lpis_supported |-> 3, dirty_supported |-> 2, virtual_lpis_supported |-> 1,
   physical_lpis_supported |-> 0]

GicrTyperSupports(v) == {f \in DOMAIN GicrTyperFlag : GicrTyperFlag[f] \in v}

max_eppi_count(v) == 32 * BitField(v, 27, 5)
processor_number(v) == BitField(v, 8, 16)
affinity_value(v) == [k \in 0 .. 3 |-> BitField(v, 32 + 8 * k, 8)]

(* A slip of the next operator: the affinity as it is in the register.     *)
core_mpidr_unshifted(v) ==
  LET a == affinity_value(v) IN <<a[0], a[1], a[2], a[3], 0, 0, 0, 0>>

(* The bytes of the core's MPIDR, lowest first.                            *)
core_mpidr(v) ==
  LET a == affinity_value(v) IN <<a[0], a[1], a[2], 0, a[3], 0, 0, 0>>

(* GicrIidr: the product and the implementer, whatever the revision.       *)
model_id(v) == v \cap ((24 .. 31) \cup (0 .. 11))

MODEL_ID_ARM_GIC_600 == {25, 10, 5, 4, 3, 1, 0}
MODEL_ID_ARM_GIC_600AE == MODEL_ID_ARM_GIC_600 \cup {24}
MODEL_ID_ARM_GIC_700 == {26, 10, 5, 4, 3, 1, 0}

(* gicv2::Typer.                                                           *)
lockable_spi_count(v) == BitField(v, 11, 5)
cpu_count(v) == BitField(v, 5, 3) + 1
num_irqs(v) == (BitField(v, 0, 5) + 1) * 32
=============================================================================
