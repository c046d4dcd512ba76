------------------------- MODULE GicV3Redistributor -------------------------
(***************************************************************************)
(* A GIC-600 or GIC-700 redistributor as the clients of the driver use it: *)
(* asleep before it is powered off, powered on before it is woken          *)
(* (GicV3Waker over GicV3Power).  The driver keeps no record of either     *)
(* state and enforces no order between the four calls; the order is the    *)
(* clients', who know what their last call for a redistributor has         *)
(* returned and nothing else.                                              *)
(***************************************************************************)
EXTENDS GicV3Waker, GicV3Power

vars == <<wakerVars, powerVars>>

(* What is powered down has been put to sleep before.                      *)
Init ==
  /\ WakerInit
  /\ PowerInit
  /\ \A c \in Cpu : want[c] = "off" => ps[c] /\ ca[c]

(* Nobody holds &mut self.                                                 *)
Free == wcall = Idle /\ pcall = Idle

(* The register is out of reach while the redistributor is down.           *)
MarkCore(c) ==
  /\ Free
  /\ want[c] = "on"
  /\ MarkAwakeRead(c) \/ MarkAwakeErr(c) \/ MarkAsleepRead(c) \/ MarkAsleepErr(c)
  /\ UNCHANGED powerVars

MarkCoreStep ==
  /\ MarkAwakeWrite \/ MarkAwakeWait \/ MarkAsleepWrite \/ MarkAsleepWait
  /\ UNCHANGED powerVars

PowerOn(c) ==
  /\ Free
  /\ Power("on", c)
  /\ UNCHANGED wakerVars

PowerOff(c) ==
  /\ Free
  /\ wlast[c] = "asleep"
  /\ Power("off", c)
  /\ UNCHANGED wakerVars

PowerStep == PowerDriver /\ UNCHANGED wakerVars

Redistributor ==
  \/ \E c \in Cpu : Follow(c) /\ UNCHANGED powerVars
  \/ Hardware /\ UNCHANGED wakerVars

Next ==
  \/ \E c \in Cpu : MarkCore(c) \/ PowerOn(c) \/ PowerOff(c)
  \/ MarkCoreStep
  \/ PowerStep
  \/ Redistributor

Spec == Init /\ [][Next]_vars

FairSpec == Spec /\ WakerFairness /\ PowerFairness
-----------------------------------------------------------------------------
(* When no handshake was unfinished at boot, a redistributor that permits  *)
(* power-down, or is down, is asleep and no call is at work on its         *)
(* GICR_WAKER: no core loses interrupts with its redistributor and no      *)
(* access goes to one that does not answer.  The four calls say what they  *)
(* have reached only by returning, mark_core_asleep (gicv3.rs:587-609) and *)
(* power_on (gicv3.rs:504-521) by waiting for it.                          *)
DownOnlyAsleep ==
  \A c \in Cpu : req[c] \/ rdpd[c] =>
    ps[c] /\ ca[c] /\ ~(wcall # Idle /\ wcall.cpu = c)

PowerFollowsSleep == (\A c \in Cpu : Settled(c)) => []DownOnlyAsleep
=============================================================================
