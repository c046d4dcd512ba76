--------------------------- MODULE RegisterLayout ---------------------------
(***************************************************************************)
(* The structs of memory mapped registers, gicv3/registers.rs and          *)
(* gicv2/registers.rs, and where #[repr(C, align(8))] puts their fields.   *)
(* A field is its name, the bytes of one element and the number of         *)
(* elements; a gap is reserved or implementation defined.                  *)
(***************************************************************************)
EXTENDS Integers, Sequences, SequencesExt

AlignUp(offset, size) == ((offset + size - 1) \div size) * size

(* Where each field ends: repr(C) puts it at the next offset that its      *)
(* elements are aligned at.                                                *)
End(struct) ==
  LET end[k \in 0 .. Len(struct)] ==
        IF k = 0 THEN 0
        ELSE AlignUp(end[k - 1], struct[k][2]) + struct[k][2] * struct[k][3]
  IN  end

FieldsOf(struct) ==
  LET end == End(struct)
      Field(name) ==
        LET k == CHOOSE n \in DOMAIN struct : struct[n][1] = name
        IN  [at |-> end[k] - struct[k][2] * struct[k][3],
             size |-> struct[k][2], count |-> struct[k][3]]
  IN  [name \in {struct[n][1] : n \in DOMAIN struct} |-> Field(name)]

SizeOf(struct) == AlignUp(End(struct)[Len(struct)], 8)

GicdV3 == <<
  <<"ctlr", 4, 1>>, <<"typer", 4, 1>>, <<"iidr", 4, 1>>, <<"typer2", 4, 1>>,
  <<"statusr", 4, 1>>, <<"gap", 4, 3>>, <<"gap", 4, 8>>,
  <<"setspi_nsr", 4, 1>>, <<"gap", 4, 1>>, <<"clrspi_nsr", 4, 1>>, <<"gap", 4, 1>>,
  <<"setspi_sr", 4, 1>>, <<"gap", 4, 1>>, <<"clrspi_sr", 4, 1>>, <<"gap", 4, 9>>,
  <<"igroupr", 4, 32>>, <<"isenabler", 4, 32>>, <<"icenabler", 4, 32>>,
  <<"ispendr", 4, 32>>, <<"icpendr", 4, 32>>, <<"isactiver", 4, 32>>,
  <<"icactiver", 4, 32>>, <<"ipriorityr", 1, 1024>>, <<"itargetsr", 4, 256>>,
  <<"icfgr", 4, 64>>, <<"igrpmodr", 4, 32>>, <<"gap", 4, 32>>, <<"nsacr", 4, 64>>,
  <<"sigr", 4, 1>>, <<"gap", 4, 3>>, <<"cpendsgir", 4, 4>>, <<"spendsgir", 4, 4>>,
  <<"gap", 4, 20>>, <<"inmir", 4, 32>>,
  <<"igroupr_e", 4, 32>>, <<"gap", 4, 96>>, <<"isenabler_e", 4, 32>>, <<"gap", 4, 96>>,
  <<"icenabler_e", 4, 32>>, <<"gap", 4, 96>>, <<"ispendr_e", 4, 32>>, <<"gap", 4, 96>>,
  <<"icpendr_e", 4, 32>>, <<"gap", 4, 96>>, <<"isactive_e", 4, 32>>, <<"gap", 4, 96>>,
  <<"icactive_e", 4, 32>>, <<"gap", 4, 224>>, <<"ipriorityr_e", 1, 1024>>, <<"gap", 4, 768>>,
  <<"icfgr_e", 4, 64>>, <<"gap", 4, 192>>, <<"igrpmodr_e", 4, 32>>, <<"gap", 4, 96>>,
  <<"nsacr_e", 4, 32>>, <<"gap", 4, 288>>, <<"inmr_e", 4, 32>>, <<"gap", 4, 2400>>,
  <<"irouter", 8, 988>>, <<"gap", 4, 8>>, <<"irouter_e", 8, 1024>>, <<"gap", 4, 2048>>,
  <<"gap", 4, 4084>>, <<"id_registers", 4, 12>> >>

Gicr == <<
  <<"ctlr", 4, 1>>, <<"iidr", 4, 1>>, <<"typer", 8, 1>>, <<"statusr", 4, 1>>,
  <<"waker", 4, 1>>, <<"mpamidr", 4, 1>>, <<"partidr", 4, 1>>, <<"gap", 4, 1>>,
  <<"pwrr", 4, 1>>, <<"gap", 4, 6>>, <<"setlprir", 8, 1>>, <<"clrlpir", 8, 1>>,
  <<"gap", 4, 8>>, <<"propbaser", 8, 1>>, <<"pendbaser", 8, 1>>, <<"gap", 4, 8>>,
  <<"invlpir", 8, 1>>, <<"gap", 8, 1>>, <<"invallr", 8, 1>>, <<"gap", 8, 1>>,
  <<"syncr", 4, 1>>, <<"gap", 4, 15>>, <<"gap", 8, 1>>, <<"gap", 8, 1>>, <<"gap", 8, 1>>,
  <<"gap", 4, 12218>>, <<"gap", 4, 4084>>, <<"id_registers", 4, 12>> >>

Sgi == <<
  <<"gap", 4, 32>>, <<"igroupr0", 4, 1>>, <<"igroupr_e", 4, 2>>, <<"gap", 4, 29>>,
  <<"isenabler0", 4, 1>>, <<"isenabler_e", 4, 2>>, <<"gap", 4, 29>>, <<"icenabler0", 4, 1>>,
  <<"icenabler_e", 4, 2>>, <<"gap", 4, 29>>, <<"ispendr0", 4, 1>>, <<"ispendr_e", 4, 2>>,
  <<"gap", 4, 29>>, <<"icpendr0", 4, 1>>, <<"icpendr_e", 4, 2>>, <<"gap", 4, 29>>,
  <<"isactiver0", 4, 1>>, <<"isactive_e", 4, 2>>, <<"gap", 4, 29>>, <<"icactiver0", 4, 1>>,
  <<"icactive_e", 4, 2>>, <<"gap", 4, 29>>, <<"ipriorityr", 1, 32>>,
  <<"ipriorityr_e", 1, 64>>, <<"gap", 4, 488>>, <<"icfgr", 4, 6>>, <<"gap", 4, 58>>,
  <<"igrpmodr0", 4, 1>>, <<"igrpmodr_e", 4, 2>>, <<"gap", 4, 61>>, <<"nsacr", 4, 1>>,
  <<"gap", 4, 95>>, <<"inmir0", 4, 1>>, <<"inmir_e", 4, 31>>, <<"gap", 4, 11264>>,
  <<"gap", 4, 4084>>, <<"gap", 4, 12>> >>

GicdV2 == <<
  <<"ctlr", 4, 1>>, <<"typer", 4, 1>>, <<"iidr", 4, 1>>, <<"gap", 4, 29>>,
  <<"igroupr", 4, 32>>, <<"isenabler", 4, 32>>, <<"icenabler", 4, 32>>,
  <<"ispendr", 4, 32>>, <<"icpendr", 4, 32>>, <<"isactiver", 4, 32>>,
  <<"icactiver", 4, 32>>, <<"ipriorityr", 4, 256>>, <<"itargetsr", 4, 256>>,
  <<"icfgr", 4, 64>>, <<"gap", 4, 128>>, <<"sgir", 4, 1>> >>

(* A slip of the next operator: the gap before the last register.          *)
Gicc_without_gap == <<
  <<"ctlr", 4, 1>>, <<"pmr", 4, 1>>, <<"bpr", 4, 1>>, <<"iar", 4, 1>>, <<"eoir", 4, 1>>,
  <<"rpr", 4, 1>>, <<"hppir", 4, 1>>, <<"abpr", 4, 1>>, <<"aiar", 4, 1>>, <<"aeoir", 4, 1>>,
  <<"ahppir", 4, 1>>, <<"gap", 4, 52>>, <<"iidr", 4, 1>>, <<"dir", 4, 1>> >>

Gicc == <<
  <<"ctlr", 4, 1>>, <<"pmr", 4, 1>>, <<"bpr", 4, 1>>, <<"iar", 4, 1>>, <<"eoir", 4, 1>>,
  <<"rpr", 4, 1>>, <<"hppir", 4, 1>>, <<"abpr", 4, 1>>, <<"aiar", 4, 1>>, <<"aeoir", 4, 1>>,
  <<"ahppir", 4, 1>>, <<"gap", 4, 52>>, <<"iidr", 4, 1>>, <<"gap", 4, 960>>, <<"dir", 4, 1>> >>

Struct == [GicdV3 |-> FieldsOf(GicdV3), Gicr |-> FieldsOf(Gicr), Sgi |-> FieldsOf(Sgi),
           GicdV2 |-> FieldsOf(GicdV2), Gicc |-> FieldsOf(Gicc)]

Size == [Gicr |-> SizeOf(Gicr), Sgi |-> SizeOf(Sgi)]
=============================================================================
