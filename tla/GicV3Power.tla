----------------------------- MODULE GicV3Power -----------------------------
(***************************************************************************)
(* GICR_PWRR of the redistributors of a GIC-600 or GIC-700, and the driver *)
(* calls gicr_power_on and gicr_power_off.                                 *)
(*                                                                         *)
(* Redistributors come in groups behind one GIC cluster interface (GCI).   *)
(* A redistributor permits power-down with RDPD; when all of a group do,   *)
(* the group goes down (RDGPD is the intent, RDGPO the state reached), and *)
(* it comes up again when one of them withdraws.  While RDGPD and RDGPO    *)
(* differ the group is in transit and may ignore what is written.  On any  *)
(* other GIC, as GICR_IIDR tells, both calls return and touch nothing.     *)
(***************************************************************************)
EXTENDS GicV3Cores

CONSTANTS
  PowerGroup,  \* the GCIs
  GciOf        \* the GCI of each redistributor

ASSUME PowerAssumption == GciOf \in [Cpu -> PowerGroup]

VARIABLES
  req,      \* RDPD as last written and taken, for each redistributor
  rdpd,     \* RDPD as it reads: FALSE once the redistributor is powered up
  rdgpd,    \* RDGPD, for each GCI
  rdgpo,    \* RDGPO, for each GCI
  pcall,    \* the call that holds &mut self and where it is, or Idle
  want      \* what the last call that returned asked of each redistributor, what
            \* the boot left before any, "none" while another is at work

hw == <<req, rdpd, rdgpd, rdgpo>>
powerVars == <<req, rdpd, rdgpd, rdgpo, pcall, want>>

(* The call reads the group's bits at "sample", spins on what it has read  *)
(* at "loop", writes RDPD at "write" and reads again at "check".  A        *)
(* power_off may sample and loop a second time, with wrote set.            *)
PowerCall ==
  [op : {"on", "off"}, cpu : Cpu, pc : {"sample", "loop", "write", "check"},
   seen : [rdgpd : BOOLEAN, rdgpo : BOOLEAN], wrote : BOOLEAN]

PowerTypeOK ==
  /\ req \in [Cpu -> BOOLEAN]
  /\ rdpd \in [Cpu -> BOOLEAN]
  /\ rdgpd \in [PowerGroup -> BOOLEAN]
  /\ rdgpo \in [PowerGroup -> BOOLEAN]
  /\ pcall \in {Idle} \cup PowerCall
  /\ want \in [Cpu -> {"none", "on", "off"}]

Transit(g) == rdgpd[g] # rdgpo[g]

(* The driver takes over with the power settled; a redistributor is only   *)
(* powered up in a group that is.                                          *)
PowerInit ==
  /\ req \in [Cpu -> BOOLEAN]
  /\ rdpd = req
  /\ rdgpd \in [PowerGroup -> BOOLEAN]
  /\ rdgpo = rdgpd
  /\ \A c \in Cpu : ~rdpd[c] => ~rdgpo[GciOf[c]]
  /\ pcall = Idle
  /\ want = [c \in Cpu |-> IF req[c] THEN "off" ELSE "on"]

(***************************************************************************)
(* The driver.                                                             *)
(***************************************************************************)
Power(op, c) ==
  /\ pcall = Idle
  /\ pcall' = [op |-> op, cpu |-> c, pc |-> "sample",
               seen |-> [rdgpd |-> FALSE, rdgpo |-> FALSE], wrote |-> FALSE]
  /\ want' = [want EXCEPT ![c] = "none"]
  /\ UNCHANGED hw

At(pc) == pcall # Idle /\ pcall.pc = pc

Gci == GciOf[pcall.cpu]

(* A slip of PowerReturn: the outcome is filed as the step it was reached. *)
PowerReturn_mixed_up ==
  /\ pcall' = Idle
  /\ want' = [want EXCEPT ![pcall.cpu] = pcall.pc]
  /\ UNCHANGED hw

PowerReturn ==
  /\ pcall' = Idle
  /\ want' = [want EXCEPT ![pcall.cpu] = pcall.op]
  /\ UNCHANGED hw

GoTo(pc) ==
  /\ pcall' = [pcall EXCEPT !.pc = pc]
  /\ UNCHANGED <<hw, want>>

(* gicr_wait_until_group_not_in_transit reads the register once, before    *)
(* its loop, ...                                                           *)
WaitRead ==
  /\ At("sample")
  /\ pcall' = [pcall EXCEPT !.pc = "loop",
                            !.seen = [rdgpd |-> rdgpd[Gci], rdgpo |-> rdgpo[Gci]]]
  /\ UNCHANGED <<hw, want>>

(* ... and the loop tests the value read.                                  *)
WaitOver == pcall.seen.rdgpd = pcall.seen.rdgpo

WaitSpin == At("loop") /\ ~WaitOver /\ UNCHANGED powerVars

WaitEnd ==
  /\ At("loop")
  /\ WaitOver
  /\ ~pcall.wrote
  /\ GoTo("write")

(* Slips of the actions below: the wrong value, and no reading back.       *)
WritePwrr_inverted ==
  /\ At("write")
  /\ \/ req' = [req EXCEPT ![pcall.cpu] = (pcall.op = "on")]
     \/ Transit(Gci) /\ req' = req
  /\ pcall' = [pcall EXCEPT !.pc = "check"]
  /\ UNCHANGED <<rdpd, rdgpd, rdgpo, want>>

OnReturn_without_reading ==
  /\ At("check") /\ pcall.op = "on"
  /\ PowerReturn

(* The write of RDPD, which a group in transit may ignore.                 *)
WritePwrr ==
  /\ At("write")
  /\ \/ req' = [req EXCEPT ![pcall.cpu] = (pcall.op = "off")]
     \/ Transit(Gci) /\ req' = req
  /\ pcall' = [pcall EXCEPT !.pc = "check"]
  /\ UNCHANGED <<rdpd, rdgpd, rdgpo, want>>

(* power_on reads RDPD back and starts again unless it is clear.           *)
OnRetry ==
  /\ At("check") /\ pcall.op = "on"
  /\ rdpd[pcall.cpu]
  /\ GoTo("sample")

OnReturn ==
  /\ At("check") /\ pcall.op = "on"
  /\ ~rdpd[pcall.cpu]
  /\ PowerReturn

(* power_off waits again when it has started the group on its way down.    *)
OffLastMan ==
  /\ At("check") /\ pcall.op = "off"
  /\ rdgpd[Gci]
  /\ pcall' = [pcall EXCEPT !.pc = "sample", !.wrote = TRUE]
  /\ UNCHANGED <<hw, want>>

OffReturn ==
  \/ At("check") /\ pcall.op = "off" /\ ~rdgpd[Gci] /\ PowerReturn
  \/ At("loop") /\ WaitOver /\ pcall.wrote /\ PowerReturn

(***************************************************************************)
(* The hardware.                                                           *)
(***************************************************************************)
Members(g) == {c \in Cpu : GciOf[c] = g}

(* RDPD reads what was written, after a while; 0 only in a group that is   *)
(* up.                                                                     *)
Reflect(c) ==
  /\ rdpd[c] # req[c]
  /\ ~req[c] => ~rdgpd[GciOf[c]] /\ ~rdgpo[GciOf[c]]
  /\ rdpd' = [rdpd EXCEPT ![c] = req[c]]
  /\ UNCHANGED <<req, rdgpd, rdgpo, pcall, want>>

IntendDown(g) ==
  /\ ~rdgpd[g] /\ ~rdgpo[g]
  /\ \A c \in Members(g) : req[c] /\ rdpd[c]
  /\ rdgpd' = [rdgpd EXCEPT ![g] = TRUE]
  /\ UNCHANGED <<req, rdpd, rdgpo, pcall, want>>

(* A group comes up, or aborts its way down, for a redistributor that      *)
(* does not permit power-down any more.                                    *)
IntendUp(g) ==
  /\ rdgpd[g]
  /\ \E c \in Members(g) : ~req[c]
  /\ rdgpd' = [rdgpd EXCEPT ![g] = FALSE]
  /\ UNCHANGED <<req, rdpd, rdgpo, pcall, want>>

Reach(g) ==
  /\ Transit(g)
  /\ rdgpo' = [rdgpo EXCEPT ![g] = rdgpd[g]]
  /\ UNCHANGED <<req, rdpd, rdgpd, pcall, want>>

PowerDriver ==
  \/ WaitRead \/ WaitSpin \/ WaitEnd \/ WritePwrr
  \/ OnRetry \/ OnReturn \/ OffLastMan \/ OffReturn

Hardware ==
  \/ \E c \in Cpu : Reflect(c)
  \/ \E g \in PowerGroup : IntendDown(g) \/ IntendUp(g) \/ Reach(g)

PowerNext ==
  \/ \E c \in Cpu, op \in {"on", "off"} : Power(op, c)
  \/ PowerDriver
  \/ Hardware

PowerSpec == PowerInit /\ [][PowerNext]_powerVars

(* A core that runs a call keeps running it.  Every group in transit       *)
(* arrives, a group wanted up comes up, and RDPD reads what was written in *)
(* the end.  Nothing makes an idle group go down.                          *)
PowerFairness ==
  /\ WF_powerVars(PowerDriver)
  /\ \A c \in Cpu : WF_powerVars(Reflect(c))
  /\ \A g \in PowerGroup : WF_powerVars(IntendUp(g)) /\ WF_powerVars(Reach(g))

PowerFairSpec == PowerSpec /\ PowerFairness
-----------------------------------------------------------------------------
(***************************************************************************)
(* Properties.                                                             *)
(***************************************************************************)

(* What a call asked for, or the boot left, holds from its return to the   *)
(* next call on the same redistributor: after power_on it is powered up in a group that is  *)
(* up and stays up whatever its neighbours do, and a power_off is never    *)
(* lost, although the group may ignore the write.                          *)
PowerHolds ==
  \A c \in Cpu :
    /\ want[c] = "on" => ~rdpd[c] /\ ~rdgpd[GciOf[c]] /\ ~rdgpo[GciOf[c]]
    /\ want[c] = "off" => req[c]

(* A call returns, or it hangs in the wait loop on a value it read while   *)
(* the group was in transit.  The retry of power_on never goes round for   *)
(* ever.                                                                   *)
Spinning == At("loop") /\ ~WaitOver

CallsReturnOrSpin == pcall # Idle ~> pcall = Idle \/ Spinning

(* A wait for the group, "Wait until group not transitioning"              *)
(* (gicv3.rs:506 and 524), ends.                                           *)
TransitWaitEnds == At("loop") ~> ~At("loop")
=============================================================================
