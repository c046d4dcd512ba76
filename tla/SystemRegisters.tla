-------------------------- MODULE SystemRegisters --------------------------
(***************************************************************************)
(* The system registers of the GICv3 CPU interface: which register of the  *)
(* core an accessor of src/src/sysreg.rs reaches.  An AArch64 instruction  *)
(* names the register; an AArch32 one has the coprocessor encoding, so the *)
(* register it reaches is the one the architecture gives that encoding to. *)
(***************************************************************************)
LOCAL INSTANCE Naturals

(* The arguments of read_sysreg32! and write_sysreg32!: opc1, the two      *)
(* coprocessor registers and opc2; of write_sysreg64!: opc1 and one.       *)
Sysreg ==
  [icc_hppir0_el1  |-> <<0, "c12", "c8", 2>>,  icc_hppir1_el1  |-> <<0, "c12", "c12", 2>>,
   icc_iar0_el1    |-> <<0, "c12", "c8", 0>>,  icc_iar1_el1    |-> <<0, "c12", "c12", 0>>,
   icc_eoir0_el1   |-> <<0, "c12", "c8", 1>>,  icc_eoir1_el1   |-> <<0, "c12", "c12", 1>>,
   icc_igrpen0_el1 |-> <<0, "c12", "c12", 6>>, icc_igrpen1_el1 |-> <<0, "c12", "c12", 7>>,
   icc_ctlr_el1    |-> <<0, "c12", "c12", 4>>, icc_sre_el1     |-> <<0, "c12", "c12", 5>>,
   icc_pmr_el1     |-> <<0, "c4", "c6", 0>>,
   icc_asgi1r_el1  |-> <<0, "c12">>,
   icc_sgi0r_el1   |-> <<0, "c12">>,
   icc_sgi1r_el1   |-> <<0, "c12">>]

(* The encodings of the GIC architecture.                                  *)
ArmEncoding ==
  [Sysreg EXCEPT !.icc_sgi1r_el1 = <<0, "c12">>, !.icc_asgi1r_el1 = <<1, "c12">>,
                 !.icc_sgi0r_el1 = <<2, "c12">>]

(* mrc, mcr and mcrr take the encoding, mrs and msr the name; a fake       *)
(* register is a field of that name.                                       *)
Aarch32(sysreg) == CHOOSE r \in DOMAIN ArmEncoding : ArmEncoding[r] = Sysreg[sysreg]
Aarch64(sysreg) == sysreg
Fake(sysreg) == sysreg

Accessed(arch, sysreg) ==
  CASE arch = "aarch32" -> Aarch32(sysreg)
    [] arch = "aarch64" -> Aarch64(sysreg)
    [] arch = "fakes"   -> Fake(sysreg)
=============================================================================
