----------------------- MODULE GicV3Forwarding_proofs -----------------------
(***************************************************************************)
(* Proofs about GicV3Forwarding for every number of cores, every number of *)
(* SPIs, every boot content of the enable bits and every set of flags.     *)
(***************************************************************************)
EXTENDS GicV3Forwarding, FramesLemmas, TLAPS

(* No frame enables a bit without an interrupt.                            *)
OnlyLines ==
  /\ enabled[Gicd] \subseteq SpiId
  /\ \A c \in Cpu : enabled[c] \subseteq PrivateId

(* A clear that waits for its barrier has been written.                    *)
ClearWritten == fcall.op = "clear" => fcall.flags \cap ctlr = {}

(* What a call that is looping was asked to do.                            *)
Looping == fcall.op \in {"all_spis", "all_private"}

(* A call that is looping has asked for all or for none.                   *)
LoopAsked ==
  Looping => asked = (IF fcall.enable THEN Line ELSE {}) /\ kept = asked

(* The interrupts the loops have passed already.                           *)
Passed(f, i) ==
  IF fcall.op = "all_spis" THEN f = Gicd /\ i < fcall.reg
                           ELSE f = Gicd \/ f < fcall.cpu

(* The interrupts it has passed are as asked.                              *)
LoopProgress ==
  Looping => \A l \in Line : Passed(l[1], l[2]) =>
                                (l[2] \in enabled[l[1]] <=> fcall.enable)

(* The inductive invariant.                                                *)
IInv ==
  /\ TypeOK
  /\ OnlyLines
  /\ NeverMoreThanAsked
  /\ KeptEnabled
  /\ ClearWritten
  /\ LoopAsked
  /\ LoopProgress

-----------------------------------------------------------------------------
(* Boot contents satisfy the invariant.                                    *)
LEMMA InitIInv == Init => IInv
<1> SUFFICES ASSUME Init PROVE IInv
  OBVIOUS
<1>1. /\ enabled \in [Frame -> SUBSET Ids]
      /\ OnlyLines
  BY ForwardingAssumption DEF Init, OnlyLines
<1>2. fcall = Idle /\ Idle.op = "idle"
  BY DEF Init, Idle
<1>3. EnabledLines \subseteq Line
  BY DEF EnabledLines
<1> QED
  BY <1>1, <1>2, <1>3 DEF Init, IInv, TypeOK, NeverMoreThanAsked, KeptEnabled,
     ClearWritten, Looping, LoopAsked, LoopProgress, Settled

(* The type of a call by its operation.                                    *)
LEMMA CallTypes ==
  ASSUME TypeOK
  PROVE  /\ fcall.op = "all_spis" => fcall \in AllSpisCalls
         /\ fcall.op = "all_private" => fcall \in AllPrivateCalls
         /\ fcall.op = "barrier" => fcall \in BarrierCalls
         /\ fcall.op \in {"set", "clear"} => fcall \in ControlCalls
         /\ fcall.op = "idle" => fcall = Idle
  BY DEF TypeOK, Idle, AllSpisCalls, AllPrivateCalls, BarrierCalls, ControlCalls

(* Writing the word read with one bit added to ISENABLER adds the bit;     *)
(* writing it to ICENABLER clears every bit of the word.                   *)
LEMMA SetBitWrites ==
  ASSUME TypeOK, NEW f \in Frame, NEW i \in Ids
  PROVE  /\ enabled[f] \cup set_bit(f, i) = enabled[f] \cup {i}
         /\ enabled[f] \ set_bit(f, i) = enabled[f] \ WordOf(i)
         /\ i \in WordOf(i)
         /\ set_bit(f, i) \subseteq Ids
  BY DEF TypeOK, set_bit, WordOf

(* Every step keeps the invariant: one step of the proof per action.       *)
LEMMA NextIInv == IInv /\ [Next]_vars => IInv'
<1> SUFFICES ASSUME IInv, [Next]_vars PROVE IInv'
  OBVIOUS
<1>t. TypeOK
  BY DEF IInv
<1>i. Idle.op = "idle"
  BY DEF Idle
<1>c. CpuCount \in Nat \ {0} /\ Cpu = 0 .. CpuCount - 1 /\ Gicd = CpuCount
  BY CpuCountAssumption DEF Cpu, Gicd
<1> USE DEF IInv, OnlyLines, NeverMoreThanAsked, KeptEnabled, ClearWritten,
        LoopAsked, LoopProgress, Looping, Settled
<1>1. ASSUME NEW i \in IntIds, NEW c \in Cpu, EnableInterrupt(i, c)
      PROVE  IInv'
  <2> DEFINE f == FrameOf(i, c)
  <2>1. /\ <<f, i>> \in Line /\ f \in Frame /\ i \in Ids
        /\ f = Gicd => i \in SpiId
        /\ f # Gicd => i \in PrivateId
    BY FrameOfLine, LineType, IdsCover
  <2>2. /\ enabled' = [enabled EXCEPT ![f] = @ \cup {i}]
        /\ live' = [live EXCEPT ![f] = @ \cup set_bit(f, i)]
        /\ set_bit(f, i) \subseteq Ids
    BY <1>1, <1>t, <2>1, SetBitWrites DEF EnableInterrupt, WriteIsenabler, TypeOK
  <2>3. /\ asked' = asked \cup {<<f, i>>} /\ kept' = kept \cup {<<f, i>>}
        /\ fcall = Idle /\ UNCHANGED <<ctlr, ctlr_live, fcall>>
    BY <1>1 DEF EnableInterrupt
  <2>4. TypeOK'
    BY <1>t, <2>1, <2>2, <2>3 DEF TypeOK
  <2>5. OnlyLines'
    BY <1>t, <2>1, <2>2, IdsCover DEF TypeOK
  <2>6. \A l \in Line : l \in EnabledLines' <=> l \in EnabledLines \/ l = <<f, i>>
    BY <1>t, <2>1, <2>2, LineType DEF TypeOK, EnabledLines
  <2>7. NeverMoreThanAsked' /\ KeptEnabled'
    BY <1>t, <1>i, <2>1, <2>3, <2>6 DEF TypeOK, EnabledLines
  <2> QED
    BY <1>i, <2>3, <2>4, <2>5, <2>7
<1>2. ASSUME NEW i \in IntIds, NEW c \in Cpu, DisableInterrupt(i, c)
      PROVE  IInv'
  <2> DEFINE f == FrameOf(i, c)
  <2>1. <<f, i>> \in Line /\ f \in Frame /\ i \in Ids
    BY FrameOfLine, LineType, IdsCover
  <2>2. /\ enabled' = [enabled EXCEPT ![f] = @ \ WordOf(i)] /\ i \in WordOf(i)
        /\ live' = live
    BY <1>2, <1>t, <2>1, SetBitWrites DEF DisableInterrupt, WriteIcenabler, TypeOK
  <2>3. /\ asked' = asked \ {<<f, i>>} /\ kept' = kept \ ({f} \X WordOf(i))
        /\ fcall = Idle /\ UNCHANGED <<ctlr, ctlr_live, fcall>>
    BY <1>2 DEF DisableInterrupt
  <2>4. TypeOK'
    BY <1>t, <2>1, <2>2, <2>3 DEF TypeOK
  <2>5. OnlyLines'
    BY <1>t, <2>1, <2>2, IdsCover DEF TypeOK
  <2>6. \A l \in Line : l \in EnabledLines'
          <=> l \in EnabledLines /\ l \notin {f} \X WordOf(i)
    BY <1>t, <2>1, <2>2, LineType DEF TypeOK, EnabledLines
  <2>7. NeverMoreThanAsked' /\ KeptEnabled'
    BY <1>t, <1>i, <2>1, <2>2, <2>3, <2>6 DEF TypeOK, EnabledLines
  <2> QED
    BY <1>i, <2>3, <2>4, <2>5, <2>7
<1>3. ASSUME NEW enable \in BOOLEAN, EnableAll(enable)
      PROVE  IInv'
  <2>1. /\ fcall' = [op |-> "all_spis", enable |-> enable, reg |-> SPI_START]
        /\ fcall' \in AllSpisCalls
    BY <1>3, Geometry, IntIdAssumption DEF EnableAll, AllSpisCalls, max_reg
  <2>2. TypeOK'
    BY <1>3, <1>t, <2>1 DEF EnableAll, TypeOK
  <2>3. \A l \in Line : ~Passed(l[1], l[2])'
    BY <2>1, LineType, IntIdAssumption, Geometry DEF Passed, SpiId
  <2> QED
    BY <1>3, <2>1, <2>2, <2>3 DEF EnableAll
<1>4. CASE AllSpis
  <2> DEFINE k == fcall.reg
  <2>1. /\ fcall \in AllSpisCalls /\ k \in Nat /\ SPI_START <= k /\ k < max_reg
        /\ fcall.enable \in BOOLEAN
    BY <1>4, <1>t, CallTypes, IntIdAssumption, Geometry DEF AllSpis, AllSpisCalls
  <2>2. /\ fcall' \in AllSpisCalls /\ fcall'.op = "all_spis"
        /\ fcall'.enable = fcall.enable /\ fcall'.reg = k + RegBits
    BY <1>4, <2>1, Geometry, IntIdAssumption DEF AllSpis, AllSpisCalls
  <2>3. SpiBits(k) \subseteq SpiId /\ SpiBits(k) \subseteq Ids
        /\ \A i \in SpiId : i \in SpiBits(k) <=> k <= i /\ i < k + RegBits
    BY <2>1, SpiBitsExact, IdsCover
  <2>4. /\ fcall.enable => enabled' = [enabled EXCEPT ![Gicd] = @ \cup SpiBits(k)]
        /\ ~fcall.enable => enabled' = [enabled EXCEPT ![Gicd] = @ \ SpiBits(k)]
        /\ live' \in [Frame -> SUBSET Ids]
        /\ UNCHANGED <<ctlr, ctlr_live, asked, kept>>
    BY <1>4, <1>t, <2>3, IdsCover DEF AllSpis, WriteIsenabler, WriteIcenabler, TypeOK
  <2>5. enabled' \in [Frame -> SUBSET Ids]
    BY <1>t, <2>3, <2>4, IdsCover DEF TypeOK
  <2>6. TypeOK'
    BY <1>t, <2>2, <2>4, <2>5 DEF TypeOK
  <2>7. OnlyLines'
    BY <1>t, <2>3, <2>4, IdsCover DEF TypeOK
  <2>8. ASSUME NEW l \in Line, Passed(l[1], l[2])'
        PROVE  l[2] \in enabled'[l[1]] <=> fcall.enable
    <3>1. l[1] = Gicd /\ l[2] \in SpiId /\ l[2] < k + RegBits /\ l[2] \in Int
      BY <2>2, <2>8, LineType, Geometry, IntIdAssumption DEF Passed, SpiId
    <3>2. CASE l[2] < k
      <4>1. Passed(l[1], l[2])
        BY <1>4, <3>1, <3>2 DEF Passed, AllSpis
      <4>2. l[2] \in enabled[Gicd] <=> fcall.enable
        BY <1>4, <3>1, <4>1 DEF AllSpis
      <4>3. l[2] \notin SpiBits(k)
        BY <2>1, <2>3, <3>1, <3>2
      <4> QED
        BY <1>t, <2>4, <3>1, <4>2, <4>3, IdsCover DEF TypeOK
    <3>3. CASE ~(l[2] < k)
      <4>1. l[2] \in SpiBits(k)
        BY <2>1, <2>3, <3>1, <3>3
      <4> QED
        BY <1>t, <2>4, <3>1, <4>1, IdsCover DEF TypeOK
    <3> QED
      BY <3>2, <3>3
  <2> QED
    BY <1>4, <2>2, <2>4, <2>6, <2>7, <2>8 DEF AllSpis
<1>5. CASE AllSpisDone
  <2>1. /\ fcall \in AllSpisCalls /\ fcall.reg \in Nat /\ fcall.reg >= max_reg
        /\ fcall.op = "all_spis"
    BY <1>5, <1>t, CallTypes, IntIdAssumption, Geometry DEF AllSpisDone, AllSpisCalls
  <2>2. /\ fcall' = [op |-> "all_private", enable |-> fcall.enable, cpu |-> 0]
        /\ UNCHANGED <<enabled, live, asked, kept, ctlr, ctlr_live>>
    BY <1>5 DEF AllSpisDone, enables, control
  <2>3. fcall' \in AllPrivateCalls
    BY <1>c, <2>1, <2>2 DEF AllSpisCalls, AllPrivateCalls
  <2>4. TypeOK'
    BY <1>t, <2>2, <2>3 DEF TypeOK
  <2>5. \A l \in Line : Passed(l[1], l[2])' => Passed(l[1], l[2])
    BY <1>c, <2>1, <2>2, LineType, Geometry, IntIdAssumption DEF Passed, SpiId
  <2> QED
    BY <2>1, <2>2, <2>4, <2>5
<1>6. CASE AllPrivate
  <2> DEFINE c == fcall.cpu
  <2>1. /\ fcall \in AllPrivateCalls /\ c \in Cpu /\ fcall.op = "all_private"
        /\ c \in Frame /\ c # Gicd /\ fcall.enable \in BOOLEAN
    BY <1>6, <1>t, <1>c, CallTypes, IdsCover DEF AllPrivate, AllPrivateCalls
  <2>2. /\ fcall' \in AllPrivateCalls /\ fcall'.op = "all_private"
        /\ fcall'.enable = fcall.enable /\ fcall'.cpu = c + 1
    BY <1>6, <1>c, <2>1 DEF AllPrivate, AllPrivateCalls
  <2>3. /\ fcall.enable => enabled' = [enabled EXCEPT ![c] = @ \cup PrivateId]
        /\ ~fcall.enable => enabled' = [enabled EXCEPT ![c] = @ \ PrivateId]
        /\ live' \in [Frame -> SUBSET Ids]
        /\ UNCHANGED <<ctlr, ctlr_live, asked, kept>>
    BY <1>6, <1>t, <2>1, IdsCover DEF AllPrivate, WriteIsenabler, WriteIcenabler, TypeOK
  <2>4. enabled' \in [Frame -> SUBSET Ids]
    BY <1>t, <2>1, <2>3, IdsCover DEF TypeOK
  <2>5. TypeOK'
    BY <1>t, <2>2, <2>3, <2>4 DEF TypeOK
  <2>6. OnlyLines'
    BY <1>t, <2>1, <2>3, IdsCover DEF TypeOK
  <2>7. ASSUME NEW l \in Line, Passed(l[1], l[2])'
        PROVE  l[2] \in enabled'[l[1]] <=> fcall.enable
    <3>1. CASE l[1] = c
      <4>1. l[2] \in PrivateId
        BY <2>1, <3>1, LineType
      <4> QED
        BY <1>t, <2>1, <2>3, <3>1, <4>1 DEF TypeOK
    <3>2. CASE l[1] # c
      <4>1. Passed(l[1], l[2])
        BY <1>c, <2>1, <2>2, <2>7, <3>2, LineType DEF Passed, Frame
      <4>2. enabled'[l[1]] = enabled[l[1]]
        BY <1>t, <2>1, <2>3, <3>2, LineType DEF TypeOK
      <4> QED
        BY <2>1, <4>1, <4>2
    <3> QED
      BY <3>1, <3>2
  <2> QED
    BY <2>1, <2>2, <2>3, <2>5, <2>6, <2>7
<1>7. CASE AllReturn
  <2>1. /\ fcall.op = "all_private" /\ fcall.cpu = CpuCount /\ fcall' = Idle
        /\ UNCHANGED <<enabled, live, asked, kept, ctlr, ctlr_live>>
    BY <1>7 DEF AllReturn, enables, control
  <2>2. fcall.enable \in BOOLEAN
    BY <1>t, <2>1, CallTypes DEF AllPrivateCalls
  <2>3. \A l \in Line : Passed(l[1], l[2])
    BY <1>c, <2>1, LineType DEF Passed, Frame
  <2>4. \A l \in Line : l[2] \in enabled[l[1]] <=> fcall.enable
    BY <2>1, <2>3
  <2>5. EnabledLines = asked /\ kept = asked
    BY <2>1, <2>2, <2>4 DEF EnabledLines
  <2>6. EnabledLines' = EnabledLines
    BY <2>1 DEF EnabledLines
  <2> QED
    BY <1>t, <1>i, <2>1, <2>5, <2>6 DEF TypeOK
<1>8. ASSUME NEW f \in Frame, Settle(f)
      PROVE  IInv'
  <2>1. /\ UNCHANGED <<enabled, ctlr, fcall, asked, kept>>
        /\ live' \in [Frame -> SUBSET Ids] /\ ctlr_live' \in SUBSET Flag
    BY <1>8, <1>t DEF Settle, TypeOK
  <2>2. TypeOK' /\ EnabledLines' = EnabledLines
    BY <1>t, <2>1 DEF TypeOK, EnabledLines
  <2>3. \A l \in Line : Passed(l[1], l[2])' = Passed(l[1], l[2])
    BY <2>1 DEF Passed
  <2> QED
    BY <2>1, <2>2, <2>3
<1>9. ASSUME ~Looping, fcall'.op \notin {"all_spis", "all_private"},
             UNCHANGED <<enabled, asked, kept>>
      PROVE  (OnlyLines /\ NeverMoreThanAsked /\ KeptEnabled /\ LoopAsked /\ LoopProgress)'
  <2>1. EnabledLines' = EnabledLines
    BY <1>9 DEF EnabledLines
  <2> QED
    BY <1>9, <2>1
<1>10. ASSUME NEW f \in Frame, Barrier(f)
       PROVE  IInv'
  <2>1. /\ fcall = Idle /\ fcall' = [op |-> "barrier", frame |-> f]
        /\ fcall' \in BarrierCalls /\ fcall'.op = "barrier"
        /\ UNCHANGED <<enabled, live, asked, kept, ctlr, ctlr_live>>
    BY <1>10 DEF Barrier, BarrierCalls, enables, control
  <2>2. TypeOK'
    BY <1>t, <2>1 DEF TypeOK
  <2> QED
    BY <1>9, <1>i, <2>1, <2>2
<1>11. ASSUME NEW flags \in SUBSET Flag, SetControl(flags) \/ ClearControl(flags)
       PROVE  IInv'
  <2>1. /\ fcall = Idle /\ fcall' \in ControlCalls /\ fcall'.op \in {"set", "clear"}
        /\ UNCHANGED <<enabled, live, asked, kept>>
    BY <1>11 DEF SetControl, ClearControl, ControlCalls, enables
  <2>2. ctlr' \in SUBSET Flag /\ ctlr_live' \in SUBSET Flag
    BY <1>11, <1>t DEF SetControl, ClearControl, WriteCtlr, TypeOK
  <2>3. ClearWritten'
    BY <1>11 DEF SetControl, ClearControl, WriteCtlr
  <2>4. TypeOK'
    BY <1>t, <2>1, <2>2 DEF TypeOK
  <2> QED
    BY <1>9, <1>i, <2>1, <2>3, <2>4
<1>12. CASE BarrierReturn \/ ControlReturn
  <2>1. /\ fcall.op \in {"barrier", "set", "clear"} /\ fcall' = Idle
        /\ UNCHANGED <<enabled, live, asked, kept, ctlr, ctlr_live>>
    BY <1>12 DEF BarrierReturn, ControlReturn, enables, control
  <2>2. TypeOK'
    BY <1>t, <2>1 DEF TypeOK
  <2> QED
    BY <1>9, <1>i, <2>1, <2>2
<1>13. CASE SetupCtlr
  <2>1. /\ fcall = Idle /\ fcall' = fcall
        /\ UNCHANGED <<enabled, live, asked, kept>>
        /\ ctlr' \in SUBSET Flag /\ ctlr_live' \in SUBSET Flag
    BY <1>13, <1>t, ForwardingAssumption DEF SetupCtlr, WriteCtlr, TypeOK, enables
  <2>2. TypeOK'
    BY <1>t, <2>1 DEF TypeOK
  <2> QED
    BY <1>9, <1>i, <2>1, <2>2
<1>14. CASE UNCHANGED vars
  <2>1. TypeOK' /\ EnabledLines' = EnabledLines
    BY <1>14, <1>t DEF vars, TypeOK, EnabledLines
  <2>2. \A l \in Line : Passed(l[1], l[2])' = Passed(l[1], l[2])
    BY <1>14 DEF Passed, vars
  <2> QED
    BY <1>14, <2>1, <2>2 DEF vars
<1> QED
  BY <1>1, <1>2, <1>3, <1>4, <1>5, <1>6, <1>7, <1>8, <1>10, <1>11, <1>12, <1>13, <1>14 DEF Next

-----------------------------------------------------------------------------
(* The invariant holds in every reachable state.                           *)
THEOREM Invariance == Spec => []IInv
  BY InitIInv, NextIInv, PTL DEF Spec

(* Types are respected: no call writes a flag or a bit that does not exist. *)
THEOREM TypeCorrect == Spec => []TypeOK
  BY Invariance, PTL DEF IInv

(* No interrupt is enabled that a client last asked to disable             *)
(* (gicv3.rs:195-238).                                                     *)
THEOREM NeverMore == Spec => []NeverMoreThanAsked
  BY Invariance, PTL DEF IInv

(* An enabled interrupt stays enabled until one of its word is disabled    *)
(* (gicv3.rs:195-238).                                                     *)
THEOREM EnabledIsKept == Spec => []KeptEnabled
  BY Invariance, PTL DEF IInv

(* The steps that release the driver.                                      *)
LEMMA Returns ==
  ASSUME Next, fcall.op \in {"barrier", "set", "clear"}, fcall' = Idle
  PROVE  (fcall.op = "barrier" /\ BarrierReturn) \/ (fcall.op # "barrier" /\ ControlReturn)
<1>1. fcall # Idle /\ fcall' # fcall
  BY DEF Idle
<1>2. ASSUME NEW i \in IntIds, NEW c \in Cpu, EnableInterrupt(i, c) \/ DisableInterrupt(i, c)
      PROVE  FALSE
  BY <1>1, <1>2 DEF EnableInterrupt, DisableInterrupt
<1>3. ASSUME NEW f \in Frame, Barrier(f) \/ Settle(f)
      PROVE  FALSE
  BY <1>1, <1>3 DEF Barrier, Settle
<1>4. ASSUME NEW flags \in SUBSET Flag, SetControl(flags) \/ ClearControl(flags)
      PROVE  FALSE
  BY <1>1, <1>4 DEF SetControl, ClearControl
<1>5. ~SetupCtlr /\ \A enable \in BOOLEAN : ~EnableAll(enable)
  BY <1>1 DEF SetupCtlr, EnableAll
<1>6. ~AllSpis /\ ~AllSpisDone /\ ~AllPrivate /\ ~AllReturn
  BY DEF AllSpis, AllSpisDone, AllPrivate, AllReturn
<1>7. BarrierReturn \/ ControlReturn
  BY <1>2, <1>3, <1>4, <1>5, <1>6 DEF Next
<1> QED
  BY <1>7 DEF BarrierReturn, ControlReturn

(* A barrier returns only once everything its frame was asked to disable   *)
(* is out of force (gicv3.rs:454-457, 480-482).                            *)
THEOREM BarrierWaits == Spec => BarrierQuiets
<1> DEFINE Step == fcall.op = "barrier" /\ fcall' = Idle =>
       \A l \in Line \ asked : l[1] = fcall.frame => l[2] \notin live'[l[1]]
<1>1. IInv /\ [Next]_vars => [Step]_vars
  <2> SUFFICES ASSUME IInv, Next, fcall.op = "barrier", fcall' = Idle,
                      NEW l \in Line \ asked, l[1] = fcall.frame
               PROVE  l[2] \notin live'[l[1]]
    BY DEF Step
  <2>1. BarrierReturn
    BY Returns
  <2>2. live[l[1]] = enabled[l[1]] /\ live' = live
    BY <2>1 DEF BarrierReturn, Rwp, enables
  <2>3. l[2] \notin enabled[l[1]]
    BY DEF IInv, NeverMoreThanAsked, Settled, EnabledLines
  <2> QED
    BY <2>2, <2>3
<1> QED
  BY <1>1, Invariance, PTL DEF Spec, BarrierQuiets

(* gicd_clear_control returns only once its flags are out of force         *)
(* (gicv3.rs:461-472).                                                     *)
THEOREM ClearWaits == Spec => ClearedIsOff
<1> DEFINE Step == fcall.op = "clear" /\ fcall' = Idle => fcall.flags \cap ctlr_live' = {}
<1>1. IInv /\ [Next]_vars => [Step]_vars
  <2> SUFFICES ASSUME IInv, Next, fcall.op = "clear", fcall' = Idle
               PROVE  fcall.flags \cap ctlr_live' = {}
    BY DEF Step
  <2>1. ControlReturn
    BY Returns
  <2>2. ctlr_live' = ctlr
    BY <2>1 DEF ControlReturn, Rwp, control
  <2> QED
    BY <2>2 DEF IInv, ClearWritten
<1> QED
  BY <1>1, Invariance, PTL DEF Spec, ClearedIsOff
=============================================================================
