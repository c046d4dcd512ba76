----------------------------- MODULE GicV3Group -----------------------------
(***************************************************************************)
(* The interrupt group registers of a GICv3 (IGROUPR and IGRPMODR) and the *)
(* driver calls that write them: GicV3::set_group, and the part of         *)
(* GicV3::setup that puts every interrupt into Non-secure group 1.         *)
(*                                                                         *)
(* A step is one register write.  The registers have no other writer, as   *)
(* the calls take &mut self and the driver owns the frames, so the read    *)
(* before the write in modify_bit belongs to the step.  Between two writes *)
(* the hardware, and every core that takes interrupts, sees the registers  *)
(* as they are.                                                            *)
(***************************************************************************)
EXTENDS GicV3Frames

CONSTANT BootRegs   \* what a register file may hold when the driver takes over

ASSUME BootAssumption ==
  BootRegs \subseteq {r \in [Frame -> SUBSET Ids] :
                        /\ r[Gicd] \subseteq SpiId
                        /\ \A c \in Cpu : r[c] \subseteq PrivateId}

VARIABLES
  igroupr,    \* IGROUPR of every frame
  igrpmodr,   \* IGRPMODR of every frame
  gcall       \* the call that holds &mut self and where it is, or Idle

groupVars == <<igroupr, igrpmodr, gcall>>

Secure == {"Group0", "Group1S"}
Group  == Secure \cup {"Group1NS"}

SetGroupCalls ==
  [op : {"igroupr", "igrpmodr"}, frame : Frame, id : IntIds, group : Group]
SetupPrivateCalls == [op : {"setup_private"}, cpu : 0 .. CpuCount]
SetupSpiCalls == [op : {"setup_spis"}, reg : SPI_START .. max_reg + RegBits]

GroupTypeOK ==
  /\ igroupr \in [Frame -> SUBSET Ids]
  /\ igrpmodr \in [Frame -> SUBSET Ids]
  /\ gcall \in {Idle} \cup SetGroupCalls \cup SetupPrivateCalls \cup SetupSpiCalls

GroupInit ==
  /\ igroupr \in BootRegs
  /\ igrpmodr \in BootRegs
  /\ gcall = Idle

(* How the hardware reads the two bits of an interrupt.  Both bits set is  *)
(* a reserved encoding that counts as Non-secure group 1.                  *)
GroupAt(f, i) ==
  IF i \in igroupr[f] THEN "Group1NS"
  ELSE IF i \in igrpmodr[f] THEN "Group1S" ELSE "Group0"

(***************************************************************************)
(* set_group: the group bit first, then the modifier bit.                  *)
(***************************************************************************)
SetGroup(i, c, g) ==
  /\ gcall = Idle
  /\ gcall' = [op |-> "igroupr", frame |-> FrameOf(i, c), id |-> i, group |-> g]
  /\ UNCHANGED <<igroupr, igrpmodr>>

SetGroupIgroupr ==
  /\ gcall.op = "igroupr"
  /\ igroupr' = [igroupr EXCEPT ![gcall.frame] =
                   modify_bit(@, gcall.id, gcall.group = "Group1NS")]
  /\ gcall' = [gcall EXCEPT !.op = "igrpmodr"]
  /\ UNCHANGED igrpmodr

(* A slip of the next action: the modifier bit is inverted.                *)
SetGroupIgrpmodr_inverted ==
  /\ gcall.op = "igrpmodr"
  /\ igrpmodr' = [igrpmodr EXCEPT ![gcall.frame] =
                    modify_bit(@, gcall.id, gcall.group # "Group1S")]
  /\ gcall' = Idle
  /\ UNCHANGED igroupr

SetGroupIgrpmodr ==
  /\ gcall.op = "igrpmodr"
  /\ igrpmodr' = [igrpmodr EXCEPT ![gcall.frame] =
                    modify_bit(@, gcall.id, gcall.group = "Group1S")]
  /\ gcall' = Idle
  /\ UNCHANGED igroupr

(***************************************************************************)
(* setup: all SGIs and PPIs of every core, then all SPIs word by word.     *)
(***************************************************************************)
Setup ==
  /\ gcall = Idle
  /\ gcall' = [op |-> "setup_private", cpu |-> 0]
  /\ UNCHANGED <<igroupr, igrpmodr>>

(* A slip of the next action: the loop runs to cpu_count inclusive.        *)
SetupPrivate_inclusive ==
  /\ gcall.op = "setup_private"
  /\ gcall.cpu <= CpuCount
  /\ igroupr' = [igroupr EXCEPT ![gcall.cpu] = PrivateId]
  /\ gcall' = [gcall EXCEPT !.cpu = @ + 1]
  /\ UNCHANGED igrpmodr

SetupPrivate ==
  /\ gcall.op = "setup_private"
  /\ gcall.cpu < CpuCount
  /\ igroupr' = [igroupr EXCEPT ![gcall.cpu] = PrivateId]
  /\ gcall' = [gcall EXCEPT !.cpu = @ + 1]
  /\ UNCHANGED igrpmodr

SetupTyper ==
  /\ gcall.op = "setup_private"
  /\ gcall.cpu = CpuCount
  /\ gcall' = [op |-> "setup_spis", reg |-> SPI_START]
  /\ UNCHANGED <<igroupr, igrpmodr>>

SetupSpis ==
  /\ gcall.op = "setup_spis"
  /\ gcall.reg < max_reg
  /\ igroupr' = [igroupr EXCEPT ![Gicd] =
                   (@ \ (gcall.reg .. gcall.reg + RegBits - 1)) \cup SpiBits(gcall.reg)]
  /\ gcall' = [gcall EXCEPT !.reg = @ + RegBits]
  /\ UNCHANGED igrpmodr

SetupReturn ==
  /\ gcall.op = "setup_spis"
  /\ gcall.reg >= max_reg
  /\ gcall' = Idle
  /\ UNCHANGED <<igroupr, igrpmodr>>

GroupNext ==
  \/ \E i \in IntIds, c \in Cpu, g \in Group : SetGroup(i, c, g)
  \/ SetGroupIgroupr
  \/ SetGroupIgrpmodr
  \/ Setup
  \/ SetupPrivate
  \/ SetupTyper
  \/ SetupSpis
  \/ SetupReturn

GroupSpec == GroupInit /\ [][GroupNext]_groupVars
-----------------------------------------------------------------------------
(***************************************************************************)
(* Properties.                                                             *)
(***************************************************************************)

(* The distributor's registers keep every bit that is not an existing SPI  *)
(* clear: the private interrupts are not configured there, and the last    *)
(* word of the SPIs is only written where SPIs exist.                      *)
OnlyExistingSpis ==
  /\ igroupr[Gicd] \subseteq SpiId
  /\ igrpmodr[Gicd] \subseteq SpiId

(* A set_group call returns with one of the three encodings set_group      *)
(* knows: the reserved one, which igroupr alone hides, is never left       *)
(* behind, so a later move to a secure group starts from a known pair.     *)
NoReservedEncodingLeft ==
  [][gcall.op = "igrpmodr" /\ gcall' = Idle =>
       ~(gcall.id \in igroupr'[gcall.frame] /\ gcall.id \in igrpmodr'[gcall.frame])]_groupVars

(* The driver implements the abstract grouping: a call moves exactly the   *)
(* interrupts it names, through the intermediate groups allowed, and they  *)
(* are in the requested group when it returns.                             *)
LineGroup == [l \in Line |-> GroupAt(l[1], l[2])]

PendingRequest ==
  IF gcall = Idle THEN [lines |-> {}, to |-> "none"]
  ELSE IF gcall.op \in {"igroupr", "igrpmodr"}
       THEN [lines |-> {<<gcall.frame, gcall.id>>}, to |-> gcall.group]
       ELSE [lines |-> Line, to |-> "Group1NS"]

Grouping == INSTANCE InterruptGrouping WITH group <- LineGroup, request <- PendingRequest

ImplementsGrouping == Grouping!Spec
=============================================================================
