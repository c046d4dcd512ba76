--------------------------- MODULE GicAddressing ---------------------------
(***************************************************************************)
(* Which registers the calls of GicV3 and GicV2 reach in memory.           *)
(*                                                                         *)
(* The driver turns an identifier into an index and a bit, the structs     *)
(* turn a field and an index into an offset, and gicr_sgi_ptr turns a core *)
(* into the address of its redistributor, by a stride that GicV3::new      *)
(* works out.  A place is a region and the number of a bit in it; the      *)
(* architecture gives every interrupt and register its place.              *)
(***************************************************************************)
EXTENDS RegisterLayout, IdRegisters

CONSTANTS
  CpuCount,      \* GicV3::cpu_count
  AffinityOf,    \* the affinity of each core, levels 0 to 3
  Chip,          \* the hardware a run covers: its version and identification
  IntIdInput     \* the identifiers clients name

Cpu == 0 .. CpuCount - 1

(* The chips there are.  model is what iidr has but the revision; a LPI has *)
(* an identifier of id_bits bits; on a GICv2 lpi_field is the lockable SPIs.*)
LegalChip(h) ==
  /\ h.version \in {"v2", "v3", "v4"} /\ h.vlpis \in BOOLEAN
  /\ "virtual_lpis_supported" \notin h.features    \* vlpis says so
  /\ h.spis \in {32 * k : k \in 0 .. 30} \cup {MAX_SPI_COUNT}
  /\ h.espis \in {32 * k : k \in 0 .. 32} /\ h.eppis \in {0, 32, 64}
  /\ h.cpus \in 1 .. 8 /\ h.id_bits \in 1 .. 24 /\ h.lpi_field \in 0 .. 31
  /\ h.lpis # 0 =>
       h.lpis \in Nat /\ h.lpis = IF h.lpi_field = 0 THEN 2 ^ h.id_bits - 8192 ELSE 2 * 2 ^ h.lpi_field
  /\ h.model \subseteq (24 .. 31) \cup (0 .. 11)
  /\ h.model \subseteq h.iidr /\ h.iidr \subseteq h.model \cup (12 .. 23)

ASSUME AddressingAssumption ==
  /\ CpuCount \in Nat \ {0} /\ CpuCount <= 65536     \* GICR_TYPER numbers the cores in 16 bits
  /\ AffinityOf \in [Cpu -> [0 .. 3 -> 0 .. 255]]
  /\ \A c, d \in Cpu : AffinityOf[c] = AffinityOf[d] => c = d
  /\ IntIdInput \subseteq Nat
  /\ SPI_START = 32 /\ SPECIAL_START = 1020     \* the structs have these widths
  /\ \A h \in Chip : LegalChip(h)

VARIABLES
  chip,      \* the hardware, with truthful identification registers
  stride,    \* GicV3::gicr_stride, 0 before GicV3::new
  call,      \* the last call
  result     \* the places it reached in order and Panic if it ended so, or
             \* what it returned

vars == <<chip, stride, call, result>>

Panic == <<"panic", 0>>
None == -1          \* no core is named, no element has the index

(***************************************************************************)
(* The hardware.                                                           *)
(***************************************************************************)
FrameSize == 65536

(* A redistributor has two frames, and two more for virtual LPIs.          *)
Window == FrameSize * (IF chip.version = "v4" /\ chip.vlpis THEN 4 ELSE 2)

(* The first bit of a register file, the bits of an interrupt in it and    *)
(* which of them matters; the private interrupts have the same offsets.    *)
ArmFile ==
  [igroupr |-> <<8 * 128, 1, 0>>, isenabler |-> <<8 * 256, 1, 0>>, icenabler |-> <<8 * 384, 1, 0>>,
   ipriorityr |-> <<8 * 1024, 8, 0>>, icfgr |-> <<8 * 3072, 2, 1>>, igrpmodr |-> <<8 * 3328, 1, 0>>]

(* The byte offsets of the registers the driver and its clients name.      *)
ArmGicdV3 ==
  [ctlr |-> 0, typer |-> 4, iidr |-> 8, typer2 |-> 12, statusr |-> 16, setspi_nsr |-> 64,
   clrspi_nsr |-> 72, setspi_sr |-> 80, clrspi_sr |-> 88, ispendr |-> 512,
   icpendr |-> 640, isactiver |-> 768, icactiver |-> 896, itargetsr |-> 2048,
   nsacr |-> 3584, sigr |-> 3840, cpendsgir |-> 3856, spendsgir |-> 3872, inmir |-> 3968,
   igroupr_e |-> 4096, isenabler_e |-> 4608, icenabler_e |-> 5120, ispendr_e |-> 5632,
   icpendr_e |-> 6144, isactive_e |-> 6656, icactive_e |-> 7168, ipriorityr_e |-> 8192,
   icfgr_e |-> 12288, igrpmodr_e |-> 13312, nsacr_e |-> 13824, inmr_e |-> 15104,
   irouter |-> 24832, irouter_e |-> 32768, id_registers |-> 65488]

ArmGicr ==
  [ctlr |-> 0, iidr |-> 4, typer |-> 8, statusr |-> 16, waker |-> 20, mpamidr |-> 24,
   partidr |-> 28, pwrr |-> 36, setlprir |-> 64, clrlpir |-> 72, propbaser |-> 112,
   pendbaser |-> 120, invlpir |-> 160, invallr |-> 176, syncr |-> 192,
   id_registers |-> 65488]

ArmSgi ==
  [igroupr_e |-> 132, isenabler_e |-> 260, icenabler_e |-> 388, ispendr0 |-> 512,
   ispendr_e |-> 516, icpendr0 |-> 640, icpendr_e |-> 644, isactiver0 |-> 768,
   isactive_e |-> 772, icactiver0 |-> 896, icactive_e |-> 900, ipriorityr_e |-> 1056,
   igrpmodr_e |-> 3332, nsacr |-> 3584, inmir0 |-> 3968, inmir_e |-> 3972]

ArmGicdV2 ==
  [ctlr |-> 0, typer |-> 4, iidr |-> 8, ispendr |-> 512, icpendr |-> 640,
   isactiver |-> 768, icactiver |-> 896, itargetsr |-> 2048, sgir |-> 3840]

ArmGicc ==
  [ctlr |-> 0, pmr |-> 4, bpr |-> 8, iar |-> 12, eoir |-> 16, rpr |-> 20, hppir |-> 24,
   abpr |-> 28, aiar |-> 32, aeoir |-> 36, ahppir |-> 40, iidr |-> 252, dir |-> 4096]

ArmRegister ==
  [GicdV3 |-> ArmGicdV3, Gicr |-> ArmGicr, Sgi |-> ArmSgi, GicdV2 |-> ArmGicdV2, Gicc |-> ArmGicc]

(* The values of the identification registers of this chip.                *)
Halved(n) == LET half[k \in 0 .. 16] == IF k = 0 THEN n ELSE half[k - 1] \div 2 IN half
AsBits(n, lo) == LET half == Halved(n) IN {lo + k : k \in {j \in 0 .. 15 : half[j] % 2 = 1}}

Lines == (chip.spis + 31) \div 32

(* The features of the chip, those among them that its counts imply.       *)
Supported ==
  chip.features \cup (IF chip.lpis = 0 THEN {} ELSE {"lpis_supported"})
    \cup (IF chip.espis = 0 THEN {} ELSE {"espi_supported"})

TyperValue ==
  AsBits(Lines, 0) \cup AsBits(chip.cpus - 1, 5) \cup AsBits(chip.lpi_field, 11)
    \cup AsBits(chip.id_bits - 1, 19) \cup (IF chip.espis = 0 THEN {} ELSE AsBits(chip.espis \div 32 - 1, 27))
    \cup {TyperFlag[f] : f \in Supported \cap DOMAIN TyperFlag}
    \cup (IF "one_of_n_supported" \in chip.features THEN {} ELSE {25})

GicrTyperValue(c) ==
  {GicrTyperFlag[f] : f \in chip.features \cap DOMAIN GicrTyperFlag}
    \cup (IF chip.vlpis THEN {GicrTyperFlag["virtual_lpis_supported"]} ELSE {})
    \cup AsBits(c, 8) \cup AsBits(chip.eppis \div 32, 27)
    \cup UNION {AsBits(AffinityOf[c][k], 32 + 8 * k) : k \in 0 .. 3}
-----------------------------------------------------------------------------
(***************************************************************************)
(* The driver.                                                             *)
(***************************************************************************)

GicrSgiSize == Size.Gicr + Size.Sgi

(* A slip of the next operator: the virtual LPI frames are forgotten.      *)
get_redistributor_window_size_v3(gic_v4) == GicrSgiSize

get_redistributor_window_size(gic_v4) ==
  IF gic_v4 /\ "virtual_lpis_supported" \in GicrTyperSupports(GicrTyperValue(0))
  THEN 2 * GicrSgiSize ELSE GicrSgiSize

(* Element index of a field, and a bit of it: the index is checked.        *)
At(struct, field, index, bit) ==
  LET f == Struct[struct][field]
  IN  IF index < f.count THEN 8 * (f.at + index * f.size) + bit ELSE None

In(region, base, at) == IF at = None THEN Panic ELSE <<region, 8 * base + at>>

InGicd(at) == In("gicd", 0, at)
InGicc(at) == In("gicc", 0, at)

(* gicr_ptr and sgi_ptr, of the window of a core.                          *)
InGicr(c, at) == IF c \in Cpu THEN In("gicr", c * stride, at) ELSE Panic
InSgi(c, at) == IF c \in Cpu THEN In("gicr", c * stride + Size.Gicr, at) ELSE Panic

(* What the calls about one interrupt index: a bit, a byte, two bits.      *)
BitOf(struct, file, i) == At(struct, file, i \div 32, i % 32)
ByteOf(struct, i) == At(struct, "ipriorityr", i, 0)

(* A slip of the next operator: one bit to an interrupt in the index.      *)
TriggerOf_wrong_word(struct, i) == At(struct, "icfgr", i \div 32, (i % 16) * 2 + 1)

TriggerOf(struct, i) == At(struct, "icfgr", i \div 16, (i % 16) * 2 + 1)

Private0 == [igroupr |-> "igroupr0", isenabler |-> "isenabler0",
             icenabler |-> "icenabler0", igrpmodr |-> "igrpmodr0"]

(* A slip of the next operator: igroupr, but not igrpmodr, knows the        *)
(* extended SPIs.                                                          *)
PlaceV3_half_extended(file, i, c) ==
  IF is_private(i)
  THEN InSgi(c, CASE file = "ipriorityr" -> ByteOf("Sgi", i)
                  [] file = "icfgr" -> TriggerOf("Sgi", i)
                  [] OTHER -> BitOf("Sgi", Private0[file], i))
  ELSE InGicd(CASE file = "ipriorityr" -> ByteOf("GicdV3", i)
                [] file = "icfgr" -> TriggerOf("GicdV3", i)
                [] file = "igroupr" /\ i >= ESPI_START -> BitOf("GicdV3", "igroupr_e", i - ESPI_START)
                [] OTHER -> BitOf("GicdV3", file, i))

PlaceV3(file, i, c) ==
  IF is_private(i)
  THEN InSgi(c, CASE file = "ipriorityr" -> ByteOf("Sgi", i)
                  [] file = "icfgr" -> TriggerOf("Sgi", i)
                  [] OTHER -> BitOf("Sgi", Private0[file], i))
  ELSE InGicd(CASE file = "ipriorityr" -> ByteOf("GicdV3", i)
                [] file = "icfgr" -> TriggerOf("GicdV3", i)
                [] OTHER -> BitOf("GicdV3", file, i))

(* GICv2 shifts a priority into a word.                                    *)
PlaceV2(file, i) ==
  InGicd(CASE file = "ipriorityr" -> At("GicdV2", "ipriorityr", i \div 4, 8 * (i % 4))
           [] file = "icfgr" -> TriggerOf("GicdV2", i)
           [] OTHER -> BitOf("GicdV2", file, i))

Place(file, i, c) == IF chip.version = "v2" THEN PlaceV2(file, i) ELSE PlaceV3(file, i, c)

(* The register files a call about one interrupt accesses, in order.       *)
FilesOf ==
  [enable_interrupt |-> <<"isenabler">>, disable_interrupt |-> <<"icenabler">>,
   set_interrupt_priority |-> <<"ipriorityr">>, set_trigger |-> <<"icfgr">>,
   set_group |-> <<"igroupr", "igrpmodr">>]

Init ==
  /\ chip \in Chip
  /\ stride = 0
  /\ call = [op |-> "boot"]
  /\ result = <<>>

(* The caller says truthfully whether the GIC is version 4.                *)
New ==
  /\ stride = 0
  /\ stride' = get_redistributor_window_size(chip.version = "v4")
  /\ call' = [op |-> "new"]
  /\ result' = <<>>
  /\ UNCHANGED chip

Called(c, r) ==
  /\ stride # 0
  /\ call' = c
  /\ result' = r
  /\ UNCHANGED <<chip, stride>>

(* The accesses of a call are made in order, up to one that panics.        *)
UpToPanic(places) ==
  [k \in {n \in DOMAIN places : \A m \in DOMAIN places : m < n => places[m] # Panic} |-> places[k]]

(* A call about one interrupt keeps what it has written when it panics.    *)
Configure(op, i, c) ==
  /\ op = "set_group" => chip.version # "v2"
  /\ Called([op |-> op, i |-> i, c |-> c],
            UpToPanic([k \in DOMAIN FilesOf[op] |-> Place(FilesOf[op][k], i, c)]))

(* A slip of the next operator: the last, partial word is left out.        *)
LoopPlaces_rounded_down(file) ==
  [k \in 1 .. num_spis(TyperValue) \div 32 |-> InGicd(At("GicdV3", file, k, 0))]
    \o [k \in 1 .. CpuCount |-> InSgi(k - 1, At("Sgi", Private0[file], 0, 0))]

(* The words that setup and enable_all_interrupts write to a file.         *)
LoopPlaces(file) ==
  IF chip.version = "v2"
  THEN [k \in 1 .. 32 |-> InGicd(At("GicdV2", file, k - 1, 0))]
  ELSE [k \in 1 .. (num_spis(TyperValue) + 31) \div 32 |-> InGicd(At("GicdV3", file, k, 0))]
         \o [k \in 1 .. CpuCount |-> InSgi(k - 1, At("Sgi", Private0[file], 0, 0))]

Loop(file) ==
  /\ file = "igrpmodr" => chip.version # "v2"
  /\ Called([op |-> "loop", file |-> file], LoopPlaces(file))

(* A named register, as the other calls reach it, and clients through      *)
(* gicd_ptr, gicr_ptr and sgi_ptr.                                         *)
Structs == IF chip.version = "v2" THEN {"GicdV2", "Gicc"} ELSE {"GicdV3", "Gicr", "Sgi"}

Register(struct, field, c) ==
  /\ struct \in Structs
  /\ LET at == At(struct, field, 0, 0)
     IN  Called([op |-> "register", struct |-> struct, field |-> field, c |-> c],
                << CASE struct = "Gicr" -> InGicr(c, at)
                     [] struct = "Sgi" -> InSgi(c, at)
                     [] struct = "Gicc" -> InGicc(at)
                     [] OTHER -> InGicd(at) >>)

(* typer.                                                                  *)
Typer ==
  Called([op |-> "typer"],
    LET v == TyperValue
    IN  IF chip.version = "v2"
        THEN [cpus |-> cpu_count(v), irqs |-> num_irqs(v), lockable |-> lockable_spi_count(v),
              secure |-> TyperFlag["has_security_extension"] \in v]
        ELSE [cpus |-> num_cpus(v), spis |-> num_spis(v), id_bits |-> id_bits(v),
              lpis |-> num_lpis(v), last_espi |-> last_espi(v), supports |-> TyperSupports(v)])

(* gicr_typer, which reads the register of the window it finds there, and  *)
(* the model of the redistributor.                                         *)
GicrTyper(c) ==
  /\ chip.version # "v2"
  /\ LET at == InGicr(c, At("Gicr", "typer", 0, 0))
         owners == {d \in Cpu : at = <<"gicr", 8 * (d * Window + ArmRegister.Gicr.typer)>>}
     IN  Called([op |-> "gicr_typer", c |-> c],
           IF at = Panic \/ owners = {} THEN <<Panic>>
           ELSE LET v == GicrTyperValue(CHOOSE d \in owners : TRUE)
                IN  [mpidr |-> core_mpidr(v), number |-> processor_number(v),
                     eppis |-> max_eppi_count(v), model |-> model_id(chip.iidr)])

CpuInput == Cpu \cup {None, CpuCount}

(* Bound: one chip of each version takes all the calls; the others differ  *)
(* in their identification only, and take those that read it.              *)
Next ==
  \/ New
  \/ Typer
  \/ \E c \in CpuInput : GicrTyper(c)
  \/ \E file \in {"igroupr", "isenabler", "icenabler", "igrpmodr"} : Loop(file)
  \/ /\ chip.plain
     /\ \E c \in CpuInput :
          \/ \E op \in DOMAIN FilesOf, i \in IntIdInput : Configure(op, i, c)
          \/ \E struct \in DOMAIN ArmRegister :
               \E field \in DOMAIN ArmRegister[struct] : Register(struct, field, c)

Spec == Init /\ [][Next]_vars
-----------------------------------------------------------------------------
(***************************************************************************)
(* Properties.                                                             *)
(***************************************************************************)

(* Where the architecture has file for interrupt i: in the frame of core c *)
(* when i is private; nowhere for an extended identifier or a LPI.         *)
ArmPlace(file, i, c) ==
  LET bit == ArmFile[file][1] + i * ArmFile[file][2] + ArmFile[file][3]
  IN  IF i >= SPECIAL_END THEN Panic
      ELSE IF chip.version = "v2" \/ ~is_private(i) THEN <<"gicd", bit>>
      ELSE IF c \in Cpu THEN <<"gicr", 8 * (c * Window + FrameSize) + bit>>
      ELSE Panic

(* A call about an interrupt reaches that interrupt's own bits and, for a  *)
(* private one, those of the core named; when a register or the core is    *)
(* missing it panics at its first access, so that set_group never changes  *)
(* one of its two registers only.                                          *)
InterruptsReached ==
  call.op \in DOMAIN FilesOf =>
    LET places == [k \in DOMAIN FilesOf[call.op] |-> ArmPlace(FilesOf[call.op][k], call.i, call.c)]
    IN  result = IF Panic \in Range(places) THEN <<Panic>> ELSE places

(* The register files of the interrupts are where the architecture has     *)
(* them, in elements of the size and the number the calls index, and the   *)
(* two structs of a redistributor fill a frame each.                       *)
FilesLaidOut ==
  LET Laid(struct, field, file, size, count) ==
        Struct[struct][field] = [at |-> ArmFile[file][1] \div 8, size |-> size, count |-> count]
  IN  /\ \A file \in DOMAIN Private0 :
           /\ Laid("GicdV3", file, file, 4, 32)
           /\ Laid("Sgi", Private0[file], file, 4, 1)
           /\ file # "igrpmodr" => Laid("GicdV2", file, file, 4, 32)
      /\ Laid("GicdV3", "ipriorityr", "ipriorityr", 1, 1024)
      /\ Laid("Sgi", "ipriorityr", "ipriorityr", 1, 32)
      /\ Laid("GicdV2", "ipriorityr", "ipriorityr", 4, 256)
      /\ Laid("GicdV3", "icfgr", "icfgr", 4, 64)
      /\ Laid("Sgi", "icfgr", "icfgr", 4, 6)
      /\ Laid("GicdV2", "icfgr", "icfgr", 4, 64)
      /\ Size.Gicr = FrameSize /\ Size.Sgi = FrameSize

(* The structs of gicv3/registers.rs and gicv2/registers.rs have every     *)
(* register where the architecture has it, in the frame of the core named. *)
RegistersReached ==
  call.op = "register" =>
    LET bit == 8 * ArmRegister[call.struct][call.field]
    IN  /\ FilesLaidOut
        /\ result =
             << IF call.struct \in {"GicdV3", "GicdV2"} THEN <<"gicd", bit>>
                ELSE IF call.struct = "Gicc" THEN <<"gicc", bit>>
                ELSE IF call.c \notin Cpu THEN Panic
                ELSE IF call.struct = "Gicr" THEN <<"gicr", 8 * call.c * Window + bit>>
                ELSE <<"gicr", 8 * (call.c * Window + FrameSize) + bit>> >>

(* The loops of setup and enable_all_interrupts reach the word of every    *)
(* interrupt that exists, the private ones on every core, and on a GICv3   *)
(* no other; on a GICv2 all words of the file.                             *)
LoopsCover ==
  call.op = "loop" =>
    LET first == {i \in {32 * k : k \in 0 .. 31} : is_private(i) \/ i - SPI_START < chip.spis}
        words == {ArmPlace(call.file, i, c) : i \in first, c \in Cpu}
    IN  IF chip.version = "v2" THEN words \subseteq Range(result) ELSE words = Range(result)

(* gicr_typer(c) answers for the redistributor of core c, whatever frames  *)
(* the GIC has, and core_mpidr is the MPIDR of that core, so that a core   *)
(* can find its redistributor; the model does not depend on the revision.  *)
OwnRedistributor ==
  call.op = "gicr_typer" =>
    IF call.c \notin Cpu THEN result = <<Panic>>
    ELSE LET a == AffinityOf[call.c]
         IN  result = [mpidr |-> <<a[0], a[1], a[2], 0, a[3], 0, 0, 0>>, number |-> call.c,
                       eppis |-> chip.eppis, model |-> chip.model]

(* The getters of Typer tell what the chip has.                            *)
CountsTold ==
  call.op = "typer" =>
    IF chip.version = "v2"
    THEN result = [cpus |-> chip.cpus, irqs |-> 32 * (Lines + 1),
                   lockable |-> chip.lpi_field,
                   secure |-> "has_security_extension" \in chip.features]
    ELSE /\ result.spis = chip.spis /\ result.id_bits = chip.id_bits
         /\ chip.lpis # 0 => result.lpis = chip.lpis
         /\ chip.espis # 0 => result.last_espi = ESPI_START + chip.espis - 1
         /\ result.supports = Supported \cap (DOMAIN TyperFlag \cup {"one_of_n_supported"})

(* Typer::num_cpus "Returns the number of CPU cores supported when         *)
(* affinity routing is disabled" (gicv3/registers.rs:290).                 *)
NumCpusTold ==
  call.op = "typer" /\ chip.version # "v2" => result.cpus = chip.cpus
=============================================================================
