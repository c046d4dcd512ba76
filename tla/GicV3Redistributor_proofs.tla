---------------------- MODULE GicV3Redistributor_proofs ----------------------
(***************************************************************************)
(* Proofs about GicV3Power, and about GicV3Redistributor that composes it  *)
(* with GicV3Waker, for every number of redistributors, every way they are *)
(* grouped and every state of the registers at boot.                       *)
(***************************************************************************)
EXTENDS GicV3Redistributor, GicV3Waker_proofs, TLAPS

-----------------------------------------------------------------------------
(***************************************************************************)
(* The power registers by themselves.                                      *)
(***************************************************************************)

(* A redistributor is powered up only in a group that is up.               *)
GroupCarries ==
  \A c \in Cpu : ~rdpd[c] => ~rdgpd[GciOf[c]] /\ ~rdgpo[GciOf[c]]

(* Only a power_on at work leaves a redistributor on its way up.           *)
OnlyCallPending ==
  \A c \in Cpu : ~req[c] /\ rdpd[c] =>
    pcall # Idle /\ pcall.cpu = c /\ pcall.op = "on"

(* After the write a power_off has been taken, and a redistributor that    *)
(* reads as powered up has been asked to be.                               *)
AfterWrite ==
  pcall # Idle =>
    /\ pcall.pc = "check" /\ pcall.op = "on" => (req[pcall.cpu] => rdpd[pcall.cpu])
    /\ pcall.pc = "check" /\ pcall.op = "off" => req[pcall.cpu]
    /\ pcall.wrote => pcall.op = "off" /\ req[pcall.cpu]

(* What has been asked for holds in the registers.                         *)
WantHolds ==
  /\ pcall # Idle => want[pcall.cpu] = "none"
  /\ \A c \in Cpu : /\ want[c] = "on" => ~req[c] /\ ~rdpd[c]
                    /\ want[c] = "off" => req[c]

(* The inductive invariant of the power registers.                         *)
PowerIInv == PowerTypeOK /\ GroupCarries /\ OnlyCallPending /\ AfterWrite /\ WantHolds

-----------------------------------------------------------------------------
(* Boot states satisfy it.                                                 *)
LEMMA PowerInitIInv == PowerInit => PowerIInv
  BY CpuCountAssumption, PowerAssumption DEF PowerInit, PowerIInv, PowerTypeOK, GroupCarries, OnlyCallPending, AfterWrite,
     WantHolds, Idle

(* Every step of a call and of the hardware keeps it.                      *)
LEMMA PowerNextIInv == PowerIInv /\ [PowerNext]_powerVars => PowerIInv'
<1> SUFFICES ASSUME PowerIInv, [PowerNext]_powerVars PROVE PowerIInv'
  OBVIOUS
<1> USE CpuCountAssumption, PowerAssumption
    DEF PowerIInv, PowerTypeOK, GroupCarries, OnlyCallPending, AfterWrite, WantHolds,
        Idle, PowerCall, hw, At, Gci, GoTo
<1>1. ASSUME NEW c \in Cpu, NEW op \in {"on", "off"}, Power(op, c) PROVE PowerIInv'
  <2>1. pcall' \in PowerCall /\ pcall'.cpu = c /\ pcall'.pc = "sample" /\ ~pcall'.wrote
    BY <1>1 DEF Power
  <2>2. pcall = Idle /\ want' = [want EXCEPT ![c] = "none"] /\ UNCHANGED hw
    BY <1>1 DEF Power
  <2> QED
    BY <2>1, <2>2
<1>2. CASE WaitRead
  <2>1. pcall \in PowerCall /\ Gci \in PowerGroup
    BY <1>2 DEF WaitRead
  <2>2. pcall' \in PowerCall /\ pcall'.pc = "loop" /\ pcall'.cpu = pcall.cpu
        /\ pcall'.op = pcall.op /\ pcall'.wrote = pcall.wrote
    BY <1>2, <2>1 DEF WaitRead
  <2> QED
    BY <1>2, <2>1, <2>2 DEF WaitRead
<1>3. CASE WaitSpin \/ UNCHANGED powerVars
  BY <1>3 DEF WaitSpin, powerVars
<1>4. CASE WaitEnd
  BY <1>4 DEF WaitEnd
<1>5. CASE WritePwrr
  <2> DEFINE c == pcall.cpu
             off == pcall.op = "off"
  <2>1. pcall \in PowerCall /\ c \in Cpu
    BY <1>5 DEF WritePwrr
  <2>2. pcall' \in PowerCall /\ pcall'.pc = "check" /\ pcall'.cpu = c
        /\ pcall'.op = pcall.op /\ pcall'.wrote = pcall.wrote
    BY <1>5, <2>1 DEF WritePwrr
  <2>3. UNCHANGED <<rdpd, rdgpd, rdgpo, want>>
    BY <1>5 DEF WritePwrr
  <2>4. CASE req' = [req EXCEPT ![c] = off]
    <3>1. req' \in [Cpu -> BOOLEAN] /\ req'[c] = off
          /\ \A d \in Cpu : d # c => req'[d] = req[d]
      BY <2>1, <2>4
    <3>2. pcall.op \in {"on", "off"} /\ want[c] = "none" /\ pcall # Idle /\ pcall' # Idle
      BY <2>1, <2>2
    <3>3. PowerTypeOK' /\ GroupCarries'
      BY <2>2, <2>3, <3>1
    <3>4. OnlyCallPending' /\ AfterWrite'
      BY <2>1, <2>2, <2>3, <3>1, <3>2
    <3>5. WantHolds'
      BY <2>2, <2>3, <3>1, <3>2
    <3> QED
      BY <3>3, <3>4, <3>5
  <2>5. CASE req' = req /\ Transit(Gci)
    <3>1. rdpd[c]
      BY <2>1, <2>5 DEF Transit
    <3>2. off => req[c]
      BY <2>1, <3>1
    <3> QED
      BY <2>1, <2>2, <2>3, <2>5, <3>1, <3>2
  <2> QED
    BY <1>5, <2>4, <2>5 DEF WritePwrr
<1>6. CASE OnRetry
  BY <1>6 DEF OnRetry
<1>7. CASE OnReturn
  BY <1>7 DEF OnReturn, PowerReturn
<1>8. CASE OffLastMan
  BY <1>8 DEF OffLastMan
<1>9. CASE OffReturn
  <2>1. pcall \in PowerCall /\ pcall.op = "off" /\ req[pcall.cpu] /\ PowerReturn
    BY <1>9 DEF OffReturn
  <2> QED
    BY <2>1 DEF PowerReturn
<1>10. ASSUME NEW c \in Cpu, Reflect(c) PROVE PowerIInv'
  BY <1>10 DEF Reflect
<1>11. ASSUME NEW g \in PowerGroup, IntendDown(g) PROVE PowerIInv'
  BY <1>11 DEF IntendDown, Members
<1>12. ASSUME NEW g \in PowerGroup, IntendUp(g) PROVE PowerIInv'
  BY <1>12 DEF IntendUp, Members
<1>13. ASSUME NEW g \in PowerGroup, Reach(g) PROVE PowerIInv'
  BY <1>13 DEF Reach, Transit
<1> QED
  BY <1>1, <1>2, <1>3, <1>4, <1>5, <1>6, <1>7, <1>8, <1>9, <1>10, <1>11, <1>12, <1>13
     DEF PowerNext, PowerDriver, Hardware

(* The invariant holds in every reachable state.                           *)
THEOREM PowerInvariance == PowerSpec => []PowerIInv
  BY PowerInitIInv, PowerNextIInv, PTL DEF PowerSpec

(* Types are respected.                                                    *)
THEOREM PowerTypeCorrect == PowerSpec => []PowerTypeOK
  BY PowerInvariance, PTL DEF PowerIInv

(* A redistributor powered on stays on, and a power_off is never lost,     *)
(* however the groups move between the driver's accesses and although a    *)
(* group in transit may ignore a write (gicv3.rs:504-540).                 *)
THEOREM PowerIsKept == PowerSpec => []PowerHolds
<1>1. PowerIInv => PowerHolds
  BY DEF PowerIInv, GroupCarries, WantHolds, PowerHolds
<1> QED
  BY <1>1, PowerInvariance, PTL

-----------------------------------------------------------------------------
(***************************************************************************)
(* The two parts together.                                                 *)
(***************************************************************************)

(* Every step of the composition is one of each part, or leaves it alone.  *)
LEMMA NextParts == [Next]_vars => [WakerNext]_wakerVars /\ [PowerNext]_powerVars
<1> SUFFICES ASSUME [Next]_vars
             PROVE  [WakerNext]_wakerVars /\ [PowerNext]_powerVars
  OBVIOUS
<1>1. ASSUME NEW c \in Cpu, MarkCore(c)
      PROVE  WakerNext /\ UNCHANGED powerVars
  BY <1>1 DEF MarkCore, WakerNext, WakerDriver
<1>2. ASSUME NEW c \in Cpu, PowerOn(c) \/ PowerOff(c)
      PROVE  UNCHANGED wakerVars /\ PowerNext
  BY <1>2 DEF PowerOn, PowerOff, PowerNext
<1>3. CASE MarkCoreStep
  BY <1>3 DEF MarkCoreStep, WakerNext, WakerDriver
<1>4. CASE PowerStep
  BY <1>4 DEF PowerStep, PowerNext
<1>5. CASE Redistributor
  BY <1>5 DEF Redistributor, WakerNext, PowerNext
<1>6. CASE UNCHANGED vars
  BY <1>6 DEF vars
<1> QED
  BY <1>1, <1>2, <1>3, <1>4, <1>5, <1>6 DEF Next

(* A client that keeps the order between the four calls uses each part as  *)
(* it may be used: what is proved of the sleep handshake alone and of the  *)
(* power groups alone holds of a redistributor that has both               *)
(* (gicv3.rs:504-609).                                                     *)
THEOREM Parts == Spec => WakerSpec /\ PowerSpec
<1>1. Init => WakerInit /\ PowerInit
  BY DEF Init
<1> QED
  BY <1>1, NextParts, PTL DEF Spec, WakerSpec, PowerSpec

(* The driver object is held by one call at a time.                        *)
OneCall == wcall = Idle \/ pcall = Idle

(* A power_off is at work only on a redistributor that is asleep.          *)
OffAsleep ==
  pcall # Idle /\ pcall.op = "off" => ps[pcall.cpu] /\ ca[pcall.cpu]

(* The inductive invariant.                                                *)
IInv ==
  /\ WakerIInv
  /\ PowerIInv
  /\ AllInHand
  /\ LastCallHolds
  /\ OneCall
  /\ OffAsleep
  /\ DownOnlyAsleep

(* Settled boot states satisfy it.                                         *)
LEMMA InitIInv == Init /\ (\A c \in Cpu : Settled(c)) => IInv
<1> SUFFICES ASSUME Init, \A c \in Cpu : Settled(c) PROVE IInv
  OBVIOUS
<1>1. WakerIInv /\ PowerIInv
  BY WakerInitIInv, PowerInitIInv DEF Init
<1>2. AllInHand /\ LastCallHolds
  BY DEF Init, WakerInit, AllInHand, InHand, LastCallHolds
<1>3. OneCall /\ OffAsleep
  BY DEF Init, WakerInit, PowerInit, OneCall, OffAsleep
<1>4. DownOnlyAsleep
  BY DEF Init, WakerInit, PowerInit, DownOnlyAsleep
<1> QED
  BY <1>1, <1>2, <1>3, <1>4 DEF IInv

(* Which power calls and registers a step can change that matters here.    *)
LEMMA PowerStepShape ==
  ASSUME PowerIInv, PowerStep
  PROVE  /\ pcall # Idle /\ pcall.cpu \in Cpu /\ rdpd' = rdpd
         /\ pcall' = Idle \/ (pcall'.op = pcall.op /\ pcall'.cpu = pcall.cpu)
         /\ req' = req \/ req' = [req EXCEPT ![pcall.cpu] = (pcall.op = "off")]
<1> USE DEF PowerIInv, PowerTypeOK, PowerCall, At, GoTo, hw, powerVars
<1>1. pcall \in PowerCall /\ pcall # Idle
  BY DEF PowerStep, PowerDriver, WaitRead, WaitSpin, WaitEnd, WritePwrr, OnRetry, OnReturn,
         OffLastMan, OffReturn
<1>2. CASE WaitRead \/ WaitSpin \/ WaitEnd \/ OnRetry \/ OffLastMan
  BY <1>1, <1>2 DEF WaitRead, WaitSpin, WaitEnd, OnRetry, OffLastMan
<1>3. CASE WritePwrr
  BY <1>1, <1>3 DEF WritePwrr
<1>4. CASE OnReturn \/ OffReturn
  BY <1>1, <1>4 DEF OnReturn, OffReturn, PowerReturn
<1> QED
  BY <1>2, <1>3, <1>4 DEF PowerStep, PowerDriver

(* Every step keeps it.                                                    *)
LEMMA NextIInv == IInv /\ [Next]_vars => IInv'
<1> SUFFICES ASSUME IInv, [Next]_vars PROVE IInv'
  OBVIOUS
<1>1. WakerIInv' /\ PowerIInv' /\ AllInHand' /\ LastCallHolds'
  BY NextParts, WakerNextIInv, PowerNextIInv, NextInHand, NextLastCall DEF IInv, AllInHand
<1> USE DEF IInv, OneCall, OffAsleep, DownOnlyAsleep
<1>2. ASSUME NEW c \in Cpu, MarkCore(c)
      PROVE  OneCall' /\ OffAsleep' /\ DownOnlyAsleep'
  <2>1. /\ wcall = Idle /\ pcall = Idle /\ want[c] = "on"
        /\ UNCHANGED <<ps, ca, req, rdpd, pcall>>
    BY <1>2 DEF MarkCore, Free, powerVars, MarkAwakeRead, MarkAwakeErr, MarkAsleepRead, MarkAsleepErr
  <2>2. wcall' = Idle \/ wcall'.cpu = c
    BY <1>2 DEF MarkCore, MarkAwakeRead, MarkAwakeErr, MarkAsleepRead, MarkAsleepErr, WakerReturn
  <2>3. ~req[c] /\ ~rdpd[c]
    BY <2>1 DEF PowerIInv, WantHolds
  <2>4. DownOnlyAsleep'
    BY <2>1, <2>2, <2>3
  <2> QED
    BY <2>1, <2>4
<1>3. ASSUME MarkCoreStep
      PROVE  OneCall' /\ OffAsleep' /\ DownOnlyAsleep'
  <2>1. /\ wcall # Idle /\ pcall = Idle /\ wcall.cpu \in Cpu
        /\ UNCHANGED <<ca, req, rdpd, pcall>>
    BY <1>3 DEF MarkCoreStep, powerVars, MarkAwakeWrite, MarkAwakeWait, MarkAsleepWrite,
         MarkAsleepWait, WakerIInv, WakerTypeOK, WakerCall
  <2>2. /\ wcall' = Idle \/ wcall'.cpu = wcall.cpu
        /\ \A c \in Cpu : c # wcall.cpu => ps'[c] = ps[c]
    BY <1>3, <2>1 DEF MarkCoreStep, MarkAwakeWrite, MarkAwakeWait, MarkAsleepWrite,
         MarkAsleepWait, WakerReturn, WakerIInv, WakerTypeOK, WakerCall
  <2>3. ~req[wcall.cpu] /\ ~rdpd[wcall.cpu]
    BY <2>1
  <2> QED
    BY <2>1, <2>2, <2>3
<1>4. ASSUME NEW c \in Cpu, PowerOn(c) \/ PowerOff(c)
      PROVE  OneCall' /\ OffAsleep' /\ DownOnlyAsleep'
  <2>1. /\ wcall = Idle
        /\ UNCHANGED <<ps, ca, wcall, req, rdpd>>
        /\ pcall'.cpu = c
        /\ pcall'.op = "on" \/ (pcall'.op = "off" /\ wlast[c] = "asleep")
    BY <1>4 DEF PowerOn, PowerOff, Free, Power, wakerVars, hw
  <2>2. wlast[c] = "asleep" => ps[c] /\ ca[c]
    BY DEF LastCallHolds
  <2> QED
    BY <2>1, <2>2
<1>5. ASSUME PowerStep
      PROVE  OneCall' /\ OffAsleep' /\ DownOnlyAsleep'
  <2>1. UNCHANGED <<ps, ca, wcall>>
    BY <1>5 DEF PowerStep, wakerVars
  <2>2. req \in [Cpu -> BOOLEAN]
    BY DEF PowerIInv, PowerTypeOK
  <2>3. /\ pcall # Idle /\ pcall.cpu \in Cpu /\ rdpd' = rdpd
        /\ pcall' = Idle \/ (pcall'.op = pcall.op /\ pcall'.cpu = pcall.cpu)
        /\ req' = req \/ req' = [req EXCEPT ![pcall.cpu] = (pcall.op = "off")]
    BY <1>5, PowerStepShape
  <2>4. wcall = Idle
    BY <2>3
  <2>5. OneCall' /\ OffAsleep'
    BY <2>1, <2>3, <2>4
  <2>6. ASSUME NEW c \in Cpu, req'[c]
        PROVE  ps[c] /\ ca[c]
    <3>1. CASE req[c]
      BY <3>1
    <3>2. CASE ~req[c]
      <4>1. c = pcall.cpu /\ pcall.op = "off"
        BY <2>2, <2>3, <2>6, <3>2
      <4> QED
        BY <2>3, <4>1
    <3> QED
      BY <3>1, <3>2
  <2>7. DownOnlyAsleep'
    BY <2>1, <2>3, <2>4, <2>6
  <2> QED
    BY <2>5, <2>7
<1>6. ASSUME NEW c \in Cpu, Follow(c), UNCHANGED powerVars
      PROVE  OneCall' /\ OffAsleep' /\ DownOnlyAsleep'
  <2>1. /\ ca[c] # ps[c] /\ ca' = [ca EXCEPT ![c] = ps[c]]
        /\ UNCHANGED <<ps, wcall, req, rdpd, pcall>>
    BY <1>6 DEF Follow, powerVars
  <2> QED
    BY <2>1 DEF WakerIInv, WakerTypeOK
<1>7. ASSUME Hardware, UNCHANGED wakerVars
      PROVE  OneCall' /\ OffAsleep' /\ DownOnlyAsleep'
  <2>1. UNCHANGED <<ps, ca, wcall, req, pcall>>
    BY <1>7 DEF wakerVars, Hardware, Reflect, IntendDown, IntendUp, Reach
  <2>2. \A d \in Cpu : rdpd'[d] = rdpd[d] \/ rdpd'[d] = req[d]
    BY <1>7 DEF Hardware, Reflect, IntendDown, IntendUp, Reach, PowerIInv, PowerTypeOK
  <2> QED
    BY <2>1, <2>2
<1>8. CASE UNCHANGED vars
  <2>1. UNCHANGED <<ps, ca, wcall, req, rdpd, pcall>>
    BY <1>8 DEF vars, wakerVars, powerVars
  <2> QED
    BY <1>1, <2>1
<1> QED
  BY <1>1, <1>2, <1>3, <1>4, <1>5, <1>6, <1>7, <1>8 DEF Next, Redistributor

(* No redistributor is down, or permitted to go down, while its core is    *)
(* awake or a call is at work on its GICR_WAKER, by what the four calls    *)
(* tell their client only (gicv3.rs:504-609).                              *)
THEOREM DownAsleep == Spec => PowerFollowsSleep
<1>1. IInv => DownOnlyAsleep
  BY DEF IInv
<1> QED
  BY <1>1, InitIInv, NextIInv, PTL DEF Spec, PowerFollowsSleep
=============================================================================
