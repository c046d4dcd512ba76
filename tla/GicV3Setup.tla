----------------------------- MODULE GicV3Setup -----------------------------
(***************************************************************************)
(* Bringing up the cores: GicV3::init_cpu and GicV3::setup as each core    *)
(* calls them, over the group registers (GicV3Group), the sleep handshake  *)
(* (GicV3Waker) and the CPU interface of the calling core.  Between the    *)
(* calls of one core another core may hold the driver and change what the  *)
(* first has set up; the associated function enable_group1 needs no driver *)
(* at all and runs at any time.                                            *)
(*                                                                         *)
(* The core passes its own linear index, as the documentation of both      *)
(* calls asks.                                                             *)
(***************************************************************************)
EXTENDS GicV3Group, GicV3Waker

CONSTANT ClientIds     \* the interrupts clients move with set_group, a bound

ASSUME ClientAssumption == ClientIds \subseteq IntIds

VARIABLES
  ctlr,        \* the flags set in GICD_CTLR
  sre,         \* the cores whose ICC_SRE_EL1 enables the system registers
  icc_ctlr,    \* the cores whose ICC_CTLR_EL1 holds 0, as init_cpu sets it
  igrpen1,     \* the cores that take group 1 interrupts
  scall        \* the init_cpu or setup that holds &mut self, or Idle

sysregs == <<sre, icc_ctlr, igrpen1>>
vars    == <<groupVars, wakerVars, ctlr, sysregs, scall>>

Flag == {"ARE_S", "EnableGrp1NS"}

SetupCall ==
  [op : {"init_cpu", "setup"}, cpu : Cpu,
   pc : {"sre", "awake", "icc_ctlr", "gicd_ctlr", "groups", "igrpen1"}]

TypeOK ==
  /\ WakerTypeOK
  /\ ctlr \in SUBSET Flag
  /\ sre \in SUBSET Cpu
  /\ icc_ctlr \in SUBSET Cpu
  /\ igrpen1 \in SUBSET Cpu
  /\ scall \in {Idle} \cup SetupCall

(* No handshake is under way when the driver takes over.                   *)
Init ==
  /\ GroupInit
  /\ WakerInit
  /\ \A c \in Cpu : Settled(c)
  /\ ctlr \in SUBSET Flag
  /\ sre = {}
  /\ icc_ctlr = {}
  /\ igrpen1 = {}
  /\ scall = Idle

(* Nobody holds &mut self.                                                 *)
Free == scall = Idle /\ gcall = Idle /\ wcall = Idle

(***************************************************************************)
(* init_cpu and setup.                                                     *)
(***************************************************************************)
Begin(op, c) ==
  /\ Free
  /\ scall' = [op |-> op, cpu |-> c, pc |-> "sre"]
  /\ UNCHANGED <<groupVars, wakerVars, ctlr, sysregs>>

At(pc) == scall # Idle /\ scall.pc = pc

GoTo(pc) == scall' = [scall EXCEPT !.pc = pc]

WriteSre ==
  /\ At("sre")
  /\ sre' = sre \cup {scall.cpu}
  /\ GoTo("awake")
  /\ UNCHANGED <<groupVars, wakerVars, ctlr, icc_ctlr, igrpen1>>

(* redistributor_mark_core_awake, whose result init_cpu ignores.           *)
MarkAwake ==
  /\ At("awake")
  /\ MarkAwakeRead(scall.cpu) \/ MarkAwakeWrite
  /\ UNCHANGED <<groupVars, ctlr, sysregs, scall>>

MarkAwakeReturn ==
  /\ At("awake")
  /\ MarkAwakeErr(scall.cpu) \/ MarkAwakeWait
  /\ GoTo("icc_ctlr")
  /\ UNCHANGED <<groupVars, ctlr, sysregs>>

WriteIccCtlr ==
  /\ At("icc_ctlr")
  /\ icc_ctlr' = icc_ctlr \cup {scall.cpu}
  /\ IF scall.op = "setup" THEN GoTo("gicd_ctlr") ELSE scall' = Idle
  /\ UNCHANGED <<groupVars, wakerVars, ctlr, sre, igrpen1>>

(* A slip of the next action: only the distributor is told of group 1.     *)
WriteGicdCtlr_group_only ==
  /\ At("gicd_ctlr")
  /\ ctlr' = ctlr \cup {"EnableGrp1NS"}
  /\ GoTo("groups")
  /\ UNCHANGED <<groupVars, wakerVars, sysregs>>

WriteGicdCtlr ==
  /\ At("gicd_ctlr")
  /\ ctlr' = {"ARE_S", "EnableGrp1NS"}
  /\ GoTo("groups")
  /\ UNCHANGED <<groupVars, wakerVars, sysregs>>

ConfigureGroups ==
  /\ At("groups")
  /\ Setup \/ SetupPrivate \/ SetupTyper \/ SetupSpis
  /\ UNCHANGED <<wakerVars, ctlr, sysregs, scall>>

GroupsConfigured ==
  /\ At("groups")
  /\ SetupReturn
  /\ GoTo("igrpen1")
  /\ UNCHANGED <<wakerVars, ctlr, sysregs>>

WriteIgrpen1 ==
  /\ At("igrpen1")
  /\ igrpen1' = igrpen1 \cup {scall.cpu}
  /\ scall' = Idle
  /\ UNCHANGED <<groupVars, wakerVars, ctlr, sre, icc_ctlr>>

SetupStep ==
  \/ WriteSre \/ MarkAwake \/ MarkAwakeReturn \/ WriteIccCtlr \/ WriteGicdCtlr
  \/ ConfigureGroups \/ GroupsConfigured \/ WriteIgrpen1

(***************************************************************************)
(* What else the cores do with the driver.                                 *)
(***************************************************************************)
ClientSetGroup(i, c, g) ==
  /\ Free
  /\ SetGroup(i, c, g)
  /\ UNCHANGED <<wakerVars, ctlr, sysregs, scall>>

SetGroupStep ==
  /\ SetGroupIgroupr \/ SetGroupIgrpmodr
  /\ UNCHANGED <<wakerVars, ctlr, sysregs, scall>>

MarkCore(c) ==
  /\ Free
  /\ MarkAwakeRead(c) \/ MarkAwakeErr(c) \/ MarkAsleepRead(c) \/ MarkAsleepErr(c)
  /\ UNCHANGED <<groupVars, ctlr, sysregs, scall>>

MarkCoreStep ==
  /\ scall = Idle
  /\ MarkAwakeWrite \/ MarkAwakeWait \/ MarkAsleepWrite \/ MarkAsleepWait
  /\ UNCHANGED <<groupVars, ctlr, sysregs, scall>>

(* gicd_set_control and gicd_clear_control, with the wait for RWP left to  *)
(* GicV3Forwarding: here the read, the write and the wait are one step.    *)
ChangeControl(flags) ==
  /\ Free
  /\ ctlr' \in {ctlr \cup flags, ctlr \ flags}
  /\ UNCHANGED <<groupVars, wakerVars, sysregs, scall>>

(* The associated function enable_group1, on a core not inside init_cpu or *)
(* setup itself.                                                           *)
EnableGroup1(c, enable) ==
  /\ ~(scall # Idle /\ scall.cpu = c)
  /\ igrpen1' = IF enable THEN igrpen1 \cup {c} ELSE igrpen1 \ {c}
  /\ UNCHANGED <<groupVars, wakerVars, ctlr, sre, icc_ctlr, scall>>

Answer(c) ==
  /\ Follow(c)
  /\ UNCHANGED <<groupVars, ctlr, sysregs, scall>>

Next ==
  \/ \E op \in {"init_cpu", "setup"}, c \in Cpu : Begin(op, c)
  \/ SetupStep
  \/ \E i \in ClientIds, c \in Cpu, g \in Group : ClientSetGroup(i, c, g)
  \/ SetGroupStep
  \/ \E c \in Cpu : MarkCore(c) \/ Answer(c)
  \/ MarkCoreStep
  \/ \E flags \in SUBSET Flag : ChangeControl(flags)
  \/ \E c \in Cpu, enable \in BOOLEAN : EnableGroup1(c, enable)

Spec == Init /\ [][Next]_vars

(* A core in the middle of setup goes on, and redistributors answer.       *)
Fairness == WF_vars(SetupStep) /\ \A c \in Cpu : WF_vars(Answer(c))

FairSpec == Spec /\ Fairness
-----------------------------------------------------------------------------
(***************************************************************************)
(* Properties.                                                             *)
(***************************************************************************)

(* When setup is about to let the core take group 1 interrupts, all it     *)
(* promises is in place at the same time: system registers enabled, the    *)
(* redistributor awake, affinity routing and group 1 on, and every         *)
(* interrupt of every core in Non-secure group 1; whatever other cores did *)
(* with the driver before.                                                 *)
Ready(c) ==
  /\ c \in sre
  /\ c \in icc_ctlr
  /\ ~ps[c] /\ ~ca[c]
  /\ ctlr = {"ARE_S", "EnableGrp1NS"}
  /\ \A l \in Line : GroupAt(l[1], l[2]) = "Group1NS"

SetupIsReady == At("igrpen1") => Ready(scall.cpu)

(* init_cpu and setup leave the redistributor of their core awake, also    *)
(* when mark_core_awake returned the error that init_cpu ignores; and it   *)
(* stays awake, whatever is called for other cores, until a call of        *)
(* mark_core_asleep about this core begins.                                *)
KeptAwake(c) == ~ps[c] /\ ~ca[c] /\ wlast[c] = "awake"

InitWakes ==
  [][\A c \in Cpu :
       /\ scall # Idle /\ scall.cpu = c /\ scall' = Idle => KeptAwake(c)'
       /\ KeptAwake(c) =>
            KeptAwake(c)' \/ (wcall'.op = "asleep" /\ wcall'.cpu = c)]_vars

(* init_cpu and setup return.                                              *)
SetupReturns == scall # Idle ~> scall = Idle
=============================================================================
