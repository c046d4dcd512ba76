-------------------------- MODULE GicV3Setup_proofs --------------------------
(***************************************************************************)
(* Proofs about GicV3Group, and about GicV3Setup that composes it with     *)
(* GicV3Waker and the bring-up of the cores, for every number of cores,    *)
(* every number of SPIs and every register content at boot.                *)
(***************************************************************************)
EXTENDS GicV3Setup, GicV3Waker_proofs, FramesLemmas, TLAPS

-----------------------------------------------------------------------------
(***************************************************************************)
(* The group registers by themselves.                                      *)
(***************************************************************************)

(* The line a set_group call works on exists.                              *)
CallNamesLine ==
  gcall.op \in {"igroupr", "igrpmodr"} => <<gcall.frame, gcall.id>> \in Line

(* Between the two writes of set_group the group bit is the one asked for. *)
GroupBitWritten ==
  gcall.op = "igrpmodr" =>
    ((gcall.id \in igroupr[gcall.frame]) <=> (gcall.group = "Group1NS"))

(* What the loops of setup have already written stays written.             *)
SetupProgress ==
  /\ gcall.op = "setup_private" =>
       \A c \in Cpu : c < gcall.cpu => PrivateId \subseteq igroupr[c]
  /\ gcall.op = "setup_spis" =>
       /\ \A c \in Cpu : PrivateId \subseteq igroupr[c]
       /\ \A i \in SpiId : i < gcall.reg => i \in igroupr[Gicd]

(* The inductive invariant of the group registers.                         *)
GroupIInv ==
  /\ GroupTypeOK
  /\ OnlyExistingSpis
  /\ CallNamesLine
  /\ GroupBitWritten
  /\ SetupProgress

-----------------------------------------------------------------------------
(* Boot contents satisfy the invariant.                                    *)
LEMMA GroupInitIInv == GroupInit => GroupIInv
<1> SUFFICES ASSUME GroupInit PROVE GroupIInv
  OBVIOUS
<1>1. igroupr \in [Frame -> SUBSET Ids] /\ igrpmodr \in [Frame -> SUBSET Ids]
  BY BootAssumption DEF GroupInit
<1>2. OnlyExistingSpis
  BY BootAssumption DEF GroupInit, OnlyExistingSpis
<1>3. gcall = [op |-> "idle"]
  BY DEF GroupInit, Idle
<1> QED
  BY <1>1, <1>2, <1>3 DEF GroupIInv, GroupTypeOK, Idle, CallNamesLine, GroupBitWritten, SetupProgress

(* Every step keeps the invariant: one step of the proof per action.       *)
LEMMA GroupNextIInv == GroupIInv /\ [GroupNext]_groupVars => GroupIInv'
<1> SUFFICES ASSUME GroupIInv, [GroupNext]_groupVars PROVE GroupIInv'
  OBVIOUS
<1> USE DEF GroupIInv, GroupTypeOK, Idle, OnlyExistingSpis, CallNamesLine, GroupBitWritten, SetupProgress
<1>1. ASSUME NEW i \in IntIds, NEW c \in Cpu, NEW g \in Group, SetGroup(i, c, g)
      PROVE  GroupIInv'
  <2>1. <<FrameOf(i, c), i>> \in Line /\ FrameOf(i, c) \in Frame
    BY FrameOfLine, LineType
  <2>2. gcall' \in SetGroupCalls /\ gcall'.op = "igroupr"
    BY <1>1, <2>1 DEF SetGroup, SetGroupCalls
  <2> QED
    BY <1>1, <2>1, <2>2 DEF SetGroup
<1>2. CASE SetGroupIgroupr
  <2> DEFINE f == gcall.frame
             i == gcall.id
             ns == gcall.group = "Group1NS"
  <2>1. gcall \in SetGroupCalls /\ <<f, i>> \in Line
    BY <1>2 DEF SetGroupIgroupr, SetGroupCalls, SetupPrivateCalls, SetupSpiCalls
  <2>2. f \in Frame /\ i \in Ids /\ (f = Gicd => i \in SpiId) /\ i \in IntIds
    BY <2>1, LineType, IdsCover DEF SetGroupCalls
  <2>3. modify_bit(igroupr[f], i, ns) =
          IF ns THEN igroupr[f] \cup {i} ELSE igroupr[f] \ {i}
    BY <2>2, ModifyBit
  <2>4. igroupr' = [igroupr EXCEPT ![f] = IF ns THEN @ \cup {i} ELSE @ \ {i}]
    BY <1>2, <2>2, <2>3 DEF SetGroupIgroupr
  <2>5. gcall' = [gcall EXCEPT !.op = "igrpmodr"] /\ igrpmodr' = igrpmodr
    BY <1>2 DEF SetGroupIgroupr
  <2>6. gcall' \in SetGroupCalls /\ gcall'.op = "igrpmodr"
        /\ gcall'.frame = f /\ gcall'.id = i /\ gcall'.group = gcall.group
    BY <2>1, <2>5 DEF SetGroupCalls
  <2>7. igroupr' \in [Frame -> SUBSET Ids] /\ igroupr'[Gicd] \subseteq SpiId
    BY <2>2, <2>4, IdsCover
  <2>8. (i \in igroupr'[f]) <=> (gcall.group = "Group1NS")
    BY <2>2, <2>4
  <2> QED
    BY <2>1, <2>5, <2>6, <2>7, <2>8
<1>3. CASE SetGroupIgrpmodr
  <2> DEFINE f == gcall.frame
             i == gcall.id
             s == gcall.group = "Group1S"
  <2>1. gcall \in SetGroupCalls /\ <<f, i>> \in Line
    BY <1>3 DEF SetGroupIgrpmodr, SetGroupCalls, SetupPrivateCalls, SetupSpiCalls
  <2>2. f \in Frame /\ i \in Ids /\ (f = Gicd => i \in SpiId)
    BY <2>1, LineType, IdsCover DEF SetGroupCalls
  <2>3. modify_bit(igrpmodr[f], i, s) =
          IF s THEN igrpmodr[f] \cup {i} ELSE igrpmodr[f] \ {i}
    BY <2>2, ModifyBit
  <2>4. igrpmodr' = [igrpmodr EXCEPT ![f] = IF s THEN @ \cup {i} ELSE @ \ {i}]
    BY <1>3, <2>2, <2>3 DEF SetGroupIgrpmodr
  <2>5. igrpmodr' \in [Frame -> SUBSET Ids] /\ igrpmodr'[Gicd] \subseteq SpiId
    BY <2>2, <2>4, IdsCover
  <2> QED
    BY <1>3, <2>5 DEF SetGroupIgrpmodr
<1>4. CASE Setup
  <2>1. gcall' \in SetupPrivateCalls /\ gcall'.op = "setup_private" /\ gcall'.cpu = 0
    BY <1>4, FramesAssumption, CpuCountAssumption DEF Setup, SetupPrivateCalls
  <2> QED
    BY <1>4, <2>1, FramesAssumption, CpuCountAssumption DEF Setup, Cpu
<1>5. CASE SetupPrivate
  <2>1. gcall \in SetupPrivateCalls /\ gcall.cpu \in Cpu /\ gcall.op = "setup_private"
    BY <1>5, FramesAssumption, CpuCountAssumption
       DEF SetupPrivate, SetGroupCalls, SetupPrivateCalls, SetupSpiCalls, Cpu
  <2>2. gcall' \in SetupPrivateCalls /\ gcall'.op = "setup_private"
        /\ gcall'.cpu = gcall.cpu + 1
    BY <1>5, <2>1, FramesAssumption, CpuCountAssumption DEF SetupPrivate, SetupPrivateCalls, Cpu
  <2>3. igroupr' = [igroupr EXCEPT ![gcall.cpu] = PrivateId] /\ igrpmodr' = igrpmodr
    BY <1>5 DEF SetupPrivate
  <2>4. igroupr' \in [Frame -> SUBSET Ids] /\ igroupr'[Gicd] = igroupr[Gicd]
    BY <2>1, <2>3, IdsCover
  <2>5. \A c \in Cpu : c < gcall'.cpu => PrivateId \subseteq igroupr'[c]
    <3> SUFFICES ASSUME NEW c \in Cpu, c < gcall.cpu + 1
                 PROVE  PrivateId \subseteq igroupr'[c]
      BY <2>2
    <3>1. c = gcall.cpu \/ c < gcall.cpu
      BY <2>1, FramesAssumption, CpuCountAssumption DEF Cpu
    <3> QED
      BY <3>1, <2>1, <2>3, IdsCover
  <2> QED
    BY <2>2, <2>3, <2>4, <2>5
<1>6. CASE SetupTyper
  <2>1. gcall \in SetupPrivateCalls /\ gcall.op = "setup_private" /\ gcall.cpu = CpuCount
    BY <1>6 DEF SetupTyper, SetGroupCalls, SetupPrivateCalls, SetupSpiCalls
  <2>2. gcall' \in SetupSpiCalls /\ gcall'.op = "setup_spis" /\ gcall'.reg = SPI_START
    BY <1>6, Geometry, IntIdAssumption DEF SetupTyper, SetupSpiCalls, max_reg
  <2>3. \A c \in Cpu : c < gcall.cpu
    BY <2>1, FramesAssumption, CpuCountAssumption DEF Cpu
  <2>4. \A i \in SpiId : ~(i < SPI_START)
    BY IntIdAssumption, Geometry DEF SpiId
  <2> QED
    BY <1>6, <2>1, <2>2, <2>3, <2>4 DEF SetupTyper
<1>7. CASE SetupSpis
  <2> DEFINE k == gcall.reg
  <2>1. /\ gcall \in SetupSpiCalls /\ gcall.op = "setup_spis"
        /\ k \in Nat /\ SPI_START <= k /\ k < max_reg
    BY <1>7, IntIdAssumption, Geometry
       DEF SetupSpis, SetGroupCalls, SetupPrivateCalls, SetupSpiCalls
  <2>2. gcall' \in SetupSpiCalls /\ gcall'.op = "setup_spis" /\ gcall'.reg = k + RegBits
    BY <1>7, <2>1, Geometry, IntIdAssumption DEF SetupSpis, SetupSpiCalls
  <2>3. /\ igroupr' = [igroupr EXCEPT ![Gicd] = (@ \ (k .. k + RegBits - 1)) \cup SpiBits(k)]
        /\ igrpmodr' = igrpmodr
    BY <1>7 DEF SetupSpis
  <2>4. SpiBits(k) \subseteq SpiId
    BY <2>1, SpiBitsExact
  <2>5. igroupr' \in [Frame -> SUBSET Ids] /\ igroupr'[Gicd] \subseteq SpiId
    BY <2>3, <2>4, IdsCover
  <2>6. \A c \in Cpu : igroupr'[c] = igroupr[c]
    BY <2>3, IdsCover
  <2>7. \A i \in SpiId : i < k + RegBits => i \in igroupr'[Gicd]
    <3> SUFFICES ASSUME NEW i \in SpiId, i < k + RegBits
                 PROVE  i \in igroupr'[Gicd]
      OBVIOUS
    <3>1. igroupr'[Gicd] = (igroupr[Gicd] \ (k .. k + RegBits - 1)) \cup SpiBits(k)
      BY <2>3, IdsCover
    <3>2. CASE i < k
      BY <3>1, <3>2, <2>1
    <3>3. CASE ~(i < k)
      <4>1. k <= i
        BY <3>3, <2>1, IntIdAssumption, Geometry DEF SpiId
      <4> QED
        BY <3>1, <4>1, <2>1, SpiBitsExact
    <3> QED
      BY <3>2, <3>3
  <2> QED
    BY <2>1, <2>2, <2>3, <2>5, <2>6, <2>7
<1>8. CASE SetupReturn
  BY <1>8 DEF SetupReturn
<1>9. CASE UNCHANGED groupVars
  BY <1>9 DEF groupVars
<1> QED
  BY <1>1, <1>2, <1>3, <1>4, <1>5, <1>6, <1>7, <1>8, <1>9 DEF GroupNext

(* The invariant holds in every reachable state.                           *)
THEOREM GroupInvariance == GroupSpec => []GroupIInv
  BY GroupInitIInv, GroupNextIInv, PTL DEF GroupSpec

(* Types are respected.                                                    *)
THEOREM GroupTypeCorrect == GroupSpec => []GroupTypeOK
  BY GroupInvariance, PTL DEF GroupIInv

(* The distributor's group registers hold no bit that is not an existing   *)
(* SPI, whatever the number of SPIs (gicv3.rs:165-173, 312-323).           *)
THEOREM SpisOnly == GroupSpec => []OnlyExistingSpis
  BY GroupInvariance, PTL DEF GroupIInv

(* A set_group call never returns with the reserved encoding               *)
(* (gicv3.rs:298-324).                                                     *)
THEOREM NoReservedEncoding == GroupSpec => NoReservedEncodingLeft
<1> DEFINE Step == gcall.op = "igrpmodr" /\ gcall' = Idle =>
       ~(gcall.id \in igroupr'[gcall.frame] /\ gcall.id \in igrpmodr'[gcall.frame])
<1>1. GroupIInv /\ [GroupNext]_groupVars => [Step]_groupVars
  <2> SUFFICES ASSUME GroupIInv, GroupNext, gcall.op = "igrpmodr", gcall' = Idle,
                      gcall.id \in igroupr'[gcall.frame]
               PROVE  gcall.id \notin igrpmodr'[gcall.frame]
    BY DEF Step
  <2>1. SetGroupIgrpmodr
    BY DEF GroupNext, SetGroup, SetGroupIgroupr, Setup, SetupPrivate, SetupTyper,
           SetupSpis, SetupReturn, Idle
  <2>2. gcall \in SetGroupCalls /\ gcall.frame \in Frame /\ gcall.id \in Ids
    BY <2>1, IdsCover DEF GroupIInv, GroupTypeOK, Idle, SetGroupCalls, SetupPrivateCalls, SetupSpiCalls
  <2>3. gcall.group = "Group1NS"
    BY <2>1 DEF SetGroupIgrpmodr, GroupIInv, GroupBitWritten
  <2>4. modify_bit(igrpmodr[gcall.frame], gcall.id, FALSE)
          = igrpmodr[gcall.frame] \ {gcall.id}
    BY <2>2, ModifyBit DEF GroupIInv, GroupTypeOK
  <2> QED
    BY <2>1, <2>2, <2>3, <2>4 DEF SetGroupIgrpmodr, GroupIInv, GroupTypeOK
<1> QED
  BY <1>1, GroupInvariance, PTL DEF GroupSpec, NoReservedEncodingLeft

-----------------------------------------------------------------------------
(***************************************************************************)
(* Refinement of InterruptGrouping.                                        *)
(***************************************************************************)

(* Every interrupt has a group.                                            *)
LEMMA LineGroupType == LineGroup \in [Line -> Grouping!Group]
  BY DEF LineGroup, GroupAt, Grouping!Group, Grouping!Secure

(* A step that leaves both register files alone moves no interrupt.        *)
LEMMA LineGroupStable ==
  ASSUME UNCHANGED <<igroupr, igrpmodr>> PROVE LineGroup' = LineGroup
  BY DEF LineGroup, GroupAt

(* The grouping starts with no request.                                    *)
LEMMA InitGrouping == GroupInit => Grouping!Init
  BY LineGroupType DEF GroupInit, Grouping!Init, PendingRequest, Grouping!NoRequest

(* Every step is a step of the abstract grouping or a stutter.             *)
LEMMA NextGrouping ==
  GroupIInv /\ GroupIInv' /\ [GroupNext]_groupVars => [Grouping!Next]_<<LineGroup, PendingRequest>>
<1> SUFFICES ASSUME GroupIInv, GroupIInv', [GroupNext]_groupVars
             PROVE  \/ Grouping!Next
                    \/ UNCHANGED <<LineGroup, PendingRequest>>
  OBVIOUS
<1> DEFINE f == gcall.frame
           i == gcall.id
<1>a. LineGroup' \in [Line -> Grouping!Group]
  BY DEF LineGroup, GroupAt, Grouping!Group, Grouping!Secure
<1>b. \A l \in Line : LineGroup[l] = GroupAt(l[1], l[2]) /\ LineGroup'[l] = GroupAt(l[1], l[2])'
  BY DEF LineGroup
<1>1. ASSUME NEW j \in IntIds, NEW c \in Cpu, NEW g \in Group, SetGroup(j, c, g)
      PROVE  Grouping!Next
  <2>1. LineGroup' = LineGroup
    BY <1>1, LineGroupStable DEF SetGroup
  <2>2. PendingRequest = Grouping!NoRequest
    BY <1>1 DEF SetGroup, PendingRequest, Grouping!NoRequest
  <2>3. gcall' = [op |-> "igroupr", frame |-> FrameOf(j, c), id |-> j, group |-> g]
    BY <1>1 DEF SetGroup
  <2>4. PendingRequest' = [lines |-> {<<FrameOf(j, c), j>>}, to |-> g]
    BY <2>3 DEF PendingRequest, Idle
  <2>5. {<<FrameOf(j, c), j>>} \in SUBSET Line /\ g \in Grouping!Group
    BY FrameOfLine DEF Group, Secure, Grouping!Group, Grouping!Secure
  <2> QED
    BY <2>1, <2>2, <2>4, <2>5 DEF Grouping!Next, Grouping!Request
<1>2. CASE SetGroupIgroupr
  <2>1. gcall \in SetGroupCalls /\ <<f, i>> \in Line /\ f \in Frame /\ i \in Ids
        /\ gcall.group \in Group
    BY <1>2, LineType, IdsCover DEF SetGroupIgroupr, GroupIInv, GroupTypeOK, CallNamesLine,
         SetGroupCalls, SetupPrivateCalls, SetupSpiCalls, Idle
  <2>2. PendingRequest = [lines |-> {<<f, i>>}, to |-> gcall.group]
    BY <1>2 DEF SetGroupIgroupr, PendingRequest, Idle
  <2>3. gcall' = [gcall EXCEPT !.op = "igrpmodr"]
    BY <1>2 DEF SetGroupIgroupr
  <2>4. PendingRequest' = PendingRequest
    BY <2>1, <2>2, <2>3 DEF PendingRequest, Idle, SetGroupCalls
  <2>5. igroupr' = [igroupr EXCEPT ![f] =
                      IF gcall.group = "Group1NS" THEN @ \cup {i} ELSE @ \ {i}]
        /\ igrpmodr' = igrpmodr
    <3>1. modify_bit(igroupr[f], i, gcall.group = "Group1NS") =
            IF gcall.group = "Group1NS" THEN igroupr[f] \cup {i} ELSE igroupr[f] \ {i}
      BY <2>1, ModifyBit DEF GroupIInv, GroupTypeOK
    <3> QED
      BY <1>2, <2>1, <3>1 DEF SetGroupIgroupr
  <2>6. ASSUME NEW l \in Line, l # <<f, i>>
        PROVE  LineGroup'[l] = LineGroup[l]
    <3>1. l[1] \in Frame /\ l[2] \in Ids /\ (l[1] # f \/ l[2] # i)
      BY <2>6, LineType
    <3> QED
      BY <3>1, <2>1, <2>5, <1>b DEF GroupAt, GroupIInv, GroupTypeOK
  <2>7. LineGroup'[<<f, i>>] \in Grouping!WayTo(gcall.group)
    BY <2>1, <2>5, <1>b DEF GroupAt, Grouping!WayTo, Grouping!Secure, GroupIInv, GroupTypeOK, Group, Secure
  <2>8. PendingRequest # Grouping!NoRequest
    BY <2>1, <2>2 DEF Grouping!NoRequest, Group, Secure
  <2> QED
    BY <1>a, <2>2, <2>4, <2>6, <2>7, <2>8 DEF Grouping!Next, Grouping!Progress
<1>3. CASE SetGroupIgrpmodr
  <2>1. gcall \in SetGroupCalls /\ <<f, i>> \in Line /\ f \in Frame /\ i \in Ids
        /\ gcall.group \in Group
    BY <1>3, LineType, IdsCover DEF SetGroupIgrpmodr, GroupIInv, GroupTypeOK, CallNamesLine,
         SetGroupCalls, SetupPrivateCalls, SetupSpiCalls, Idle
  <2>2. PendingRequest = [lines |-> {<<f, i>>}, to |-> gcall.group]
    BY <1>3 DEF SetGroupIgrpmodr, PendingRequest, Idle
  <2>3. PendingRequest' = Grouping!NoRequest
    BY <1>3 DEF SetGroupIgrpmodr, PendingRequest, Grouping!NoRequest
  <2>4. igrpmodr' = [igrpmodr EXCEPT ![f] =
                       IF gcall.group = "Group1S" THEN @ \cup {i} ELSE @ \ {i}]
        /\ igroupr' = igroupr
    <3>1. modify_bit(igrpmodr[f], i, gcall.group = "Group1S") =
            IF gcall.group = "Group1S" THEN igrpmodr[f] \cup {i} ELSE igrpmodr[f] \ {i}
      BY <2>1, ModifyBit DEF GroupIInv, GroupTypeOK
    <3> QED
      BY <1>3, <2>1, <3>1 DEF SetGroupIgrpmodr
  <2>5. ASSUME NEW l \in Line, l # <<f, i>>
        PROVE  LineGroup'[l] = LineGroup[l]
    <3>1. l[1] \in Frame /\ l[2] \in Ids /\ (l[1] # f \/ l[2] # i)
      BY <2>5, LineType
    <3> QED
      BY <3>1, <2>1, <2>4, <1>b DEF GroupAt, GroupIInv, GroupTypeOK
  <2>6. (i \in igroupr[f]) <=> (gcall.group = "Group1NS")
    BY <1>3 DEF SetGroupIgrpmodr, GroupIInv, GroupBitWritten
  <2>7. LineGroup'[<<f, i>>] = gcall.group
    BY <2>1, <2>4, <2>6, <1>b DEF GroupAt, GroupIInv, GroupTypeOK, Group, Secure
  <2>8. PendingRequest # Grouping!NoRequest
    BY <2>1, <2>2 DEF Grouping!NoRequest, Group, Secure
  <2>9. LineGroup' = [l \in Line |-> IF l \in PendingRequest.lines
                                      THEN PendingRequest.to ELSE LineGroup[l]]
    BY <1>a, <2>2, <2>5, <2>7
  <2> QED
    BY <2>3, <2>8, <2>9 DEF Grouping!Next, Grouping!Finish
<1>4. CASE Setup
  <2>1. LineGroup' = LineGroup
    BY <1>4, LineGroupStable DEF Setup
  <2>2. PendingRequest = Grouping!NoRequest
    BY <1>4 DEF Setup, PendingRequest, Grouping!NoRequest
  <2>3. PendingRequest' = [lines |-> Line, to |-> "Group1NS"]
    BY <1>4 DEF Setup, PendingRequest, Idle
  <2> QED
    BY <2>1, <2>2, <2>3 DEF Grouping!Next, Grouping!Request, Grouping!Group
<1>5. CASE SetupPrivate
  <2>1. gcall.cpu \in Cpu /\ gcall.cpu \in Frame
    BY <1>5, FramesAssumption, CpuCountAssumption, IdsCover DEF SetupPrivate, GroupIInv, GroupTypeOK, SetGroupCalls,
         SetupPrivateCalls, SetupSpiCalls, Cpu, Idle
  <2>2. PendingRequest = [lines |-> Line, to |-> "Group1NS"]
        /\ PendingRequest' = PendingRequest
    <3>1. gcall'.op = "setup_private"
      BY <1>5 DEF SetupPrivate, GroupIInv, GroupTypeOK, SetGroupCalls,
         SetupPrivateCalls, SetupSpiCalls, Idle
    <3> QED
      BY <1>5, <3>1 DEF SetupPrivate, PendingRequest, Idle
  <2>3. ASSUME NEW l \in Line
        PROVE  LineGroup'[l] = LineGroup[l] \/ LineGroup'[l] = "Group1NS"
    <3>1. l[1] \in Frame /\ l[2] \in Ids /\ (l[1] # Gicd => l[2] \in PrivateId)
      BY LineType
    <3>2. gcall.cpu # Gicd
      BY <2>1, IdsCover
    <3> QED
      BY <1>5, <2>1, <3>1, <3>2, <1>b DEF SetupPrivate, GroupAt, GroupIInv, GroupTypeOK
  <2>4. PendingRequest # Grouping!NoRequest
    BY <2>2 DEF Grouping!NoRequest
  <2> QED
    BY <1>a, <2>2, <2>3, <2>4 DEF Grouping!Next, Grouping!Progress, Grouping!WayTo
<1>6. CASE SetupTyper
  <2>1. LineGroup' = LineGroup
    BY <1>6, LineGroupStable DEF SetupTyper
  <2>2. PendingRequest' = PendingRequest
    BY <1>6 DEF SetupTyper, PendingRequest, Idle
  <2> QED
    BY <2>1, <2>2
<1>7. CASE SetupSpis
  <2>1. gcall.reg \in Nat /\ SPI_START <= gcall.reg /\ gcall.reg < max_reg
    BY <1>7, IntIdAssumption, Geometry
       DEF SetupSpis, GroupIInv, GroupTypeOK, SetGroupCalls, SetupPrivateCalls, SetupSpiCalls, Idle
  <2>2. PendingRequest = [lines |-> Line, to |-> "Group1NS"]
        /\ PendingRequest' = PendingRequest
    <3>1. gcall'.op = "setup_spis"
      BY <1>7 DEF SetupSpis, GroupIInv, GroupTypeOK, SetGroupCalls,
         SetupPrivateCalls, SetupSpiCalls, Idle
    <3> QED
      BY <1>7, <3>1 DEF SetupSpis, PendingRequest, Idle
  <2>3. ASSUME NEW l \in Line
        PROVE  LineGroup'[l] = LineGroup[l] \/ LineGroup'[l] = "Group1NS"
    <3>1. l[1] \in Frame /\ l[2] \in Ids /\ (l[1] = Gicd => l[2] \in SpiId)
      BY LineType
    <3>2. CASE l[1] # Gicd
      BY <1>7, <3>1, <3>2, <1>b, IdsCover DEF SetupSpis, GroupAt, GroupIInv, GroupTypeOK
    <3>3. CASE l[1] = Gicd
      <4>1. igroupr'[Gicd] = (igroupr[Gicd] \ (gcall.reg .. gcall.reg + RegBits - 1))
                             \cup SpiBits(gcall.reg)
            /\ igrpmodr' = igrpmodr
        BY <1>7, IdsCover DEF SetupSpis, GroupIInv, GroupTypeOK
      <4>2. l[2] \in SpiId /\ (l[2] \in SpiBits(gcall.reg)
              <=> gcall.reg <= l[2] /\ l[2] < gcall.reg + RegBits)
        BY <3>1, <3>3, <2>1, SpiBitsExact
      <4>3. l[2] \in igroupr'[Gicd] <=>
              (l[2] \in igroupr[Gicd] \/ l[2] \in SpiBits(gcall.reg))
        BY <4>1, <4>2, <2>1, Geometry
      <4> QED
        BY <3>3, <4>1, <4>2, <4>3, <1>b DEF GroupAt
    <3> QED
      BY <3>2, <3>3
  <2>4. PendingRequest # Grouping!NoRequest
    BY <2>2 DEF Grouping!NoRequest
  <2> QED
    BY <1>a, <2>2, <2>3, <2>4 DEF Grouping!Next, Grouping!Progress, Grouping!WayTo
<1>8. CASE SetupReturn
  <2>1. LineGroup' = LineGroup
    BY <1>8, LineGroupStable DEF SetupReturn
  <2>2. PendingRequest = [lines |-> Line, to |-> "Group1NS"]
    BY <1>8 DEF SetupReturn, PendingRequest, Idle
  <2>3. PendingRequest' = Grouping!NoRequest
    BY <1>8 DEF SetupReturn, PendingRequest, Grouping!NoRequest
  <2>4. ASSUME NEW l \in Line PROVE LineGroup[l] = "Group1NS"
    <3>1. gcall.reg \in Nat /\ \A j \in SpiId : j < gcall.reg
      BY <1>8, Geometry, IntIdAssumption DEF SetupReturn, GroupIInv, GroupTypeOK, SetGroupCalls,
           SetupPrivateCalls, SetupSpiCalls, Idle, SpiId
    <3>2. l[2] \in igroupr[l[1]]
      BY <1>8, <3>1, LineType DEF SetupReturn, GroupIInv, SetupProgress
    <3> QED
      BY <3>2, <1>b DEF GroupAt
  <2>5. LineGroup' = [l \in Line |-> IF l \in PendingRequest.lines
                                      THEN PendingRequest.to ELSE LineGroup[l]]
    BY <1>a, <2>1, <2>2, <2>4
  <2>6. PendingRequest # Grouping!NoRequest
    BY <2>2 DEF Grouping!NoRequest
  <2> QED
    BY <2>3, <2>5, <2>6 DEF Grouping!Next, Grouping!Finish
<1>9. CASE UNCHANGED groupVars
  <2>1. LineGroup' = LineGroup
    BY <1>9, LineGroupStable DEF groupVars
  <2> QED
    BY <1>9, <2>1 DEF groupVars, PendingRequest
<1> QED
  BY <1>1, <1>2, <1>3, <1>4, <1>5, <1>6, <1>7, <1>8, <1>9 DEF GroupNext

(* set_group and setup implement the abstract grouping: only the named     *)
(* interrupts move, through allowed groups, and arrive (gicv3.rs:157-173,  *)
(* 298-324).                                                               *)
THEOREM GroupingRefinement == GroupSpec => ImplementsGrouping
<1>1. GroupInit => Grouping!Init
  BY InitGrouping
<1>2. GroupIInv /\ GroupIInv' /\ [GroupNext]_groupVars => [Grouping!Next]_<<LineGroup, PendingRequest>>
  BY NextGrouping
<1> QED
  BY <1>1, <1>2, GroupInvariance, PTL DEF GroupSpec, ImplementsGrouping, Grouping!Spec

-----------------------------------------------------------------------------
(***************************************************************************)
(* Bringing up the cores.                                                  *)
(***************************************************************************)

(* While init_cpu or setup is at work, the only other calls are its own.   *)
OwnCalls ==
  scall # Idle =>
    /\ wcall # Idle => scall.pc = "awake" /\ wcall.op = "awake" /\ wcall.cpu = scall.cpu
    /\ gcall # Idle => scall.pc = "groups" /\ gcall.op \in {"setup_private", "setup_spis"}

(* What the call has done already stays done until it returns.             *)
DoneSoFar ==
  scall # Idle =>
    LET c == scall.cpu
    IN  /\ scall.pc # "sre" => c \in sre
        /\ scall.pc \notin {"sre", "awake"} => KeptAwake(c)
        /\ scall.pc \in {"gicd_ctlr", "groups", "igrpen1"} => c \in icc_ctlr
        /\ scall.pc \in {"groups", "igrpen1"} => ctlr = {"ARE_S", "EnableGrp1NS"}
        /\ scall.pc = "igrpen1" => \A l \in Line : GroupAt(l[1], l[2]) = "Group1NS"

(* The inductive invariant of the bring-up.                                *)
IInv ==
  /\ TypeOK
  /\ GroupIInv
  /\ WakerIInv
  /\ AllInHand
  /\ OwnCalls
  /\ DoneSoFar

(* Every step of the bring-up is one of the group registers, of the sleep  *)
(* handshake, or leaves them alone.                                        *)
LEMMA NextParts ==
  ASSUME TypeOK, [Next]_vars
  PROVE  [GroupNext]_groupVars /\ [WakerNext]_wakerVars
<1>1. ASSUME NEW op \in {"init_cpu", "setup"}, NEW c \in Cpu, Begin(op, c)
      PROVE  UNCHANGED groupVars /\ UNCHANGED wakerVars
  BY <1>1 DEF Begin
<1>2. ASSUME SetupStep
      PROVE  [GroupNext]_groupVars /\ [WakerNext]_wakerVars
  <2>1. CASE WriteSre \/ WriteIccCtlr \/ WriteGicdCtlr \/ WriteIgrpen1
    BY <2>1 DEF WriteSre, WriteIccCtlr, WriteGicdCtlr, WriteIgrpen1
  <2>2. CASE MarkAwake \/ MarkAwakeReturn
    <3>1. scall.cpu \in Cpu
      BY <2>2 DEF MarkAwake, MarkAwakeReturn, At, TypeOK, SetupCall
    <3>2. UNCHANGED groupVars /\ WakerNext
      BY <2>2, <3>1 DEF MarkAwake, MarkAwakeReturn, WakerNext, WakerDriver
    <3> QED
      BY <3>2
  <2>3. CASE ConfigureGroups \/ GroupsConfigured
    BY <2>3 DEF ConfigureGroups, GroupsConfigured, GroupNext
  <2> QED
    BY <1>2, <2>1, <2>2, <2>3 DEF SetupStep
<1>3. ASSUME NEW i \in ClientIds, NEW c \in Cpu, NEW g \in Group, ClientSetGroup(i, c, g)
      PROVE  GroupNext /\ UNCHANGED wakerVars
  BY <1>3, ClientAssumption DEF ClientSetGroup, GroupNext
<1>4. CASE SetGroupStep
  BY <1>4 DEF SetGroupStep, GroupNext
<1>5. ASSUME NEW c \in Cpu, MarkCore(c) \/ Answer(c)
      PROVE  UNCHANGED groupVars /\ WakerNext
  BY <1>5 DEF MarkCore, Answer, WakerNext, WakerDriver
<1>6. CASE MarkCoreStep
  BY <1>6 DEF MarkCoreStep, WakerNext, WakerDriver
<1>7. ASSUME NEW flags \in SUBSET Flag, ChangeControl(flags)
      PROVE  UNCHANGED groupVars /\ UNCHANGED wakerVars
  BY <1>7 DEF ChangeControl
<1>8. ASSUME NEW c \in Cpu, NEW enable \in BOOLEAN, EnableGroup1(c, enable)
      PROVE  UNCHANGED groupVars /\ UNCHANGED wakerVars
  BY <1>8 DEF EnableGroup1
<1>9. CASE UNCHANGED vars
  BY <1>9 DEF vars
<1> QED
  BY <1>1, <1>2, <1>3, <1>4, <1>5, <1>6, <1>7, <1>8, <1>9 DEF Next

(* Whatever ran before the driver left no handshake unfinished.            *)
LEMMA InitIInv == Init => IInv
<1> SUFFICES ASSUME Init PROVE IInv
  OBVIOUS
<1>1. GroupIInv /\ WakerIInv
  BY GroupInitIInv, WakerInitIInv DEF Init
<1>2. AllInHand
  BY DEF Init, AllInHand, InHand
<1>3. TypeOK
  BY <1>1 DEF Init, TypeOK, WakerIInv
<1>4. OwnCalls /\ DoneSoFar
  BY DEF Init, OwnCalls, DoneSoFar
<1> QED
  BY <1>1, <1>2, <1>3, <1>4 DEF IInv

(* Registers written by a call that runs, and by nobody else meanwhile.    *)
LEMMA GroupsStable ==
  ASSUME UNCHANGED groupVars
  PROVE  \A l \in Line : GroupAt(l[1], l[2])' = GroupAt(l[1], l[2])
  BY DEF groupVars, GroupAt

(* Every step keeps the invariant.                                         *)
LEMMA NextIInv == IInv /\ [Next]_vars => IInv'
<1> SUFFICES ASSUME IInv, [Next]_vars PROVE IInv'
  OBVIOUS
<1>1. GroupIInv' /\ WakerIInv' /\ AllInHand'
  BY NextParts, GroupNextIInv, WakerNextIInv, NextInHand DEF IInv, AllInHand
<1> DEFINE Rest == /\ ctlr \in SUBSET Flag /\ sre \in SUBSET Cpu /\ icc_ctlr \in SUBSET Cpu
                   /\ igrpen1 \in SUBSET Cpu /\ scall \in {Idle} \cup SetupCall
                   /\ OwnCalls /\ DoneSoFar
<1>2. Rest
  BY DEF IInv, TypeOK
<1>3. ASSUME NEW op \in {"init_cpu", "setup"}, NEW c \in Cpu, Begin(op, c)
      PROVE  Rest'
  <2>1. scall' \in SetupCall /\ scall'.pc = "sre" /\ scall'.cpu = c
    BY <1>3 DEF Begin, SetupCall
  <2>2. wcall' = Idle /\ gcall' = Idle /\ UNCHANGED <<ctlr, sre, icc_ctlr, igrpen1>>
    BY <1>3 DEF Begin, Free, groupVars, wakerVars, sysregs
  <2> QED
    BY <1>2, <2>1, <2>2 DEF OwnCalls, DoneSoFar, KeptAwake
<1>4. ASSUME SetupStep
      PROVE  Rest'
  <2> DEFINE c == scall.cpu
  <2>1. scall # Idle /\ scall \in SetupCall /\ c \in Cpu
    BY <1>2, <1>4 DEF SetupStep, WriteSre, MarkAwake, MarkAwakeReturn, WriteIccCtlr, WriteGicdCtlr,
         ConfigureGroups, GroupsConfigured, WriteIgrpen1, At, SetupCall
  <2>2. ASSUME NEW pc \in {"sre", "awake", "icc_ctlr", "gicd_ctlr", "groups", "igrpen1"}, GoTo(pc)
        PROVE  scall' \in SetupCall /\ scall'.pc = pc /\ scall'.cpu = c /\ scall'.op = scall.op
    BY <2>1, <2>2 DEF GoTo, SetupCall
  <2>3. CASE WriteSre
    <3>1. scall' \in SetupCall /\ scall'.pc = "awake" /\ scall'.cpu = c
      BY <2>2, <2>3 DEF WriteSre
    <3>2. wcall' = Idle /\ gcall' = Idle
      BY <1>2, <2>3 DEF WriteSre, At, groupVars, wakerVars, OwnCalls
    <3> QED
      BY <1>2, <2>1, <2>3, <3>1, <3>2 DEF WriteSre, OwnCalls, DoneSoFar, KeptAwake
  <2>4. CASE MarkAwake
    <3>1. UNCHANGED <<scall, ctlr, sre, icc_ctlr, igrpen1, gcall>> /\ scall.pc = "awake"
      BY <2>4 DEF MarkAwake, sysregs, groupVars, At
    <3>2. gcall = Idle /\ wcall'.op = "awake" /\ wcall'.cpu = c
      BY <1>2, <2>1, <2>4, <3>1 DEF MarkAwake, MarkAwakeRead, MarkAwakeWrite, OwnCalls, IInv, TypeOK,
           WakerTypeOK, WakerCall
    <3> QED
      BY <1>2, <2>1, <3>1, <3>2 DEF OwnCalls, DoneSoFar, KeptAwake
  <2>5. CASE MarkAwakeReturn
    <3>1. scall' \in SetupCall /\ scall'.pc = "icc_ctlr" /\ scall'.cpu = c
      BY <2>2, <2>5 DEF MarkAwakeReturn
    <3>2. UNCHANGED <<ctlr, sre, icc_ctlr, igrpen1, gcall, ps, ca>> /\ wcall' = Idle /\ gcall = Idle
      BY <1>2, <2>1, <2>5 DEF MarkAwakeReturn, sysregs, groupVars, At, MarkAwakeErr, MarkAwakeWait,
           WakerReturn, OwnCalls
    <3>3. ~ps[c] /\ ~ca[c] /\ wlast'[c] = "awake"
      <4>0. wlast \in [Cpu -> {"none", "awake", "asleep"}]
        BY DEF IInv, TypeOK, WakerTypeOK
      <4>1. CASE MarkAwakeErr(c)
        BY <2>1, <4>0, <4>1 DEF MarkAwakeErr, WakerReturn, IInv, AllInHand, InHand, Settled
      <4>2. CASE MarkAwakeWait
        <5>1. wcall # Idle /\ wcall.cpu = c /\ wcall.op = "awake" /\ wcall.pc = "wait" /\ ~ca[wcall.cpu]
          BY <1>2, <2>1, <4>2 DEF MarkAwakeWait, OwnCalls
        <5> QED
          BY <2>1, <4>0, <4>2, <5>1 DEF MarkAwakeWait, WakerReturn, IInv, WakerIInv, AskedFor
      <4> QED
        BY <2>5, <4>1, <4>2 DEF MarkAwakeReturn
    <3>4. c \in sre
      BY <1>2, <2>1, <2>5 DEF MarkAwakeReturn, At, DoneSoFar
    <3> QED
      BY <1>2, <2>1, <3>1, <3>2, <3>3, <3>4 DEF OwnCalls, DoneSoFar, KeptAwake
  <2>6. CASE WriteIccCtlr
    <3>1. /\ scall.pc = "icc_ctlr" /\ icc_ctlr' = icc_ctlr \cup {c}
          /\ UNCHANGED <<ctlr, sre, igrpen1, gcall, ps, ca, wcall, wlast>>
          /\ wcall = Idle /\ gcall = Idle
      BY <1>2, <2>1, <2>6 DEF WriteIccCtlr, groupVars, wakerVars, At, OwnCalls
    <3>2. scall' = Idle \/ (scall' \in SetupCall /\ scall'.pc = "gicd_ctlr" /\ scall'.cpu = c)
      BY <2>2, <2>6 DEF WriteIccCtlr
    <3> QED
      BY <1>2, <2>1, <3>1, <3>2 DEF OwnCalls, DoneSoFar, KeptAwake
  <2>7. CASE WriteGicdCtlr
    <3>1. scall' \in SetupCall /\ scall'.pc = "groups" /\ scall'.cpu = c
      BY <2>2, <2>7 DEF WriteGicdCtlr
    <3>2. /\ scall.pc = "gicd_ctlr" /\ ctlr' = {"ARE_S", "EnableGrp1NS"}
          /\ UNCHANGED <<sre, icc_ctlr, igrpen1, gcall, ps, ca, wcall, wlast>>
          /\ wcall = Idle /\ gcall = Idle
      BY <1>2, <2>1, <2>7 DEF WriteGicdCtlr, groupVars, wakerVars, sysregs, At, OwnCalls
    <3> QED
      BY <1>2, <2>1, <3>1, <3>2 DEF OwnCalls, DoneSoFar, KeptAwake, Flag
  <2>8. CASE ConfigureGroups
    <3>1. /\ scall.pc = "groups"
          /\ UNCHANGED <<ctlr, sre, icc_ctlr, igrpen1, ps, ca, wcall, wlast, scall>>
      BY <2>8 DEF ConfigureGroups, wakerVars, sysregs, At
    <3>2. gcall'.op \in {"setup_private", "setup_spis"}
      BY <2>8 DEF ConfigureGroups, Setup, SetupPrivate, SetupTyper, SetupSpis, IInv, GroupIInv,
           GroupTypeOK, SetGroupCalls, SetupPrivateCalls, SetupSpiCalls, Idle
    <3> QED
      BY <1>2, <2>1, <3>1, <3>2 DEF OwnCalls, DoneSoFar, KeptAwake
  <2>9. CASE GroupsConfigured
    <3>1. scall' \in SetupCall /\ scall'.pc = "igrpen1" /\ scall'.cpu = c
      BY <2>2, <2>9 DEF GroupsConfigured
    <3>2. /\ scall.pc = "groups" /\ gcall' = Idle /\ wcall = Idle
          /\ UNCHANGED <<ctlr, sre, icc_ctlr, igrpen1, ps, ca, wcall, wlast, igroupr, igrpmodr>>
      BY <1>2, <2>1, <2>9 DEF GroupsConfigured, SetupReturn, wakerVars, sysregs, At, OwnCalls
    <3>3. ASSUME NEW l \in Line PROVE GroupAt(l[1], l[2])' = "Group1NS"
      <4>1. /\ gcall.op = "setup_spis" /\ gcall.reg >= max_reg /\ gcall.reg \in Nat
            /\ GroupIInv
        BY <2>9, Geometry, IntIdAssumption DEF GroupsConfigured, SetupReturn, IInv, GroupIInv,
             GroupTypeOK, SetGroupCalls, SetupPrivateCalls, SetupSpiCalls, Idle
      <4>2. \A i \in SpiId : i < gcall.reg
        BY <4>1, Geometry, IntIdAssumption DEF SpiId
      <4>3. l[2] \in igroupr[l[1]]
        BY <4>1, <4>2, LineType DEF GroupIInv, SetupProgress
      <4> QED
        BY <3>2, <4>3 DEF GroupAt
    <3> QED
      BY <1>2, <2>1, <3>1, <3>2, <3>3 DEF OwnCalls, DoneSoFar, KeptAwake
  <2>10. CASE WriteIgrpen1
    BY <1>2, <2>1, <2>10 DEF WriteIgrpen1, groupVars, wakerVars, OwnCalls, DoneSoFar, KeptAwake
  <2> QED
    BY <1>4, <2>3, <2>4, <2>5, <2>6, <2>7, <2>8, <2>9, <2>10 DEF SetupStep
<1>5. ASSUME NEW i \in ClientIds, NEW c \in Cpu, NEW g \in Group, ClientSetGroup(i, c, g)
      PROVE  Rest'
  BY <1>2, <1>5 DEF ClientSetGroup, Free, sysregs, OwnCalls, DoneSoFar, KeptAwake
<1>6. ASSUME SetGroupStep
      PROVE  Rest'
  <2>1. gcall.op \in {"igroupr", "igrpmodr"} /\ gcall # Idle
    BY <1>6 DEF SetGroupStep, SetGroupIgroupr, SetGroupIgrpmodr, Idle
  <2>2. scall = Idle
    BY <1>2, <2>1 DEF OwnCalls
  <2> QED
    BY <1>2, <1>6, <2>2 DEF SetGroupStep, sysregs, OwnCalls, DoneSoFar, KeptAwake
<1>7. ASSUME NEW c \in Cpu, MarkCore(c)
      PROVE  Rest'
  BY <1>2, <1>7 DEF MarkCore, Free, sysregs, OwnCalls, DoneSoFar, KeptAwake
<1>8. ASSUME MarkCoreStep
      PROVE  Rest'
  BY <1>2, <1>8 DEF MarkCoreStep, sysregs, OwnCalls, DoneSoFar, KeptAwake
<1>9. ASSUME NEW flags \in SUBSET Flag, ChangeControl(flags)
      PROVE  Rest'
  BY <1>2, <1>9 DEF ChangeControl, Free, sysregs, OwnCalls, DoneSoFar, KeptAwake
<1>10. ASSUME NEW c \in Cpu, NEW enable \in BOOLEAN, EnableGroup1(c, enable)
       PROVE  Rest'
  <2>1. /\ UNCHANGED <<ctlr, sre, icc_ctlr, gcall, ps, ca, wcall, wlast, scall>>
        /\ igrpen1' \in SUBSET Cpu
    BY <1>2, <1>10 DEF EnableGroup1, groupVars, wakerVars
  <2>2. \A l \in Line : GroupAt(l[1], l[2])' = GroupAt(l[1], l[2])
    BY <1>10, GroupsStable DEF EnableGroup1
  <2> QED
    BY <1>2, <2>1, <2>2 DEF OwnCalls, DoneSoFar, KeptAwake
<1>11. ASSUME NEW c \in Cpu, Answer(c)
       PROVE  Rest'
  <2>1. /\ UNCHANGED <<ctlr, sre, icc_ctlr, igrpen1, gcall, ps, wcall, wlast, scall>>
        /\ ca[c] # ps[c] /\ ca' = [ca EXCEPT ![c] = ps[c]]
    BY <1>11 DEF Answer, Follow, groupVars, sysregs
  <2>2. \A l \in Line : GroupAt(l[1], l[2])' = GroupAt(l[1], l[2])
    BY <1>11, GroupsStable DEF Answer
  <2>3. scall # Idle /\ scall.pc \notin {"sre", "awake"} => ~ca'[scall.cpu]
    BY <1>2, <2>1 DEF DoneSoFar, KeptAwake, SetupCall, IInv, WakerIInv, WakerTypeOK
  <2> QED
    BY <1>2, <2>1, <2>2, <2>3 DEF OwnCalls, DoneSoFar, KeptAwake
<1>12. ASSUME UNCHANGED vars
       PROVE  Rest'
  <2>1. UNCHANGED <<ctlr, sre, icc_ctlr, igrpen1, gcall, ps, ca, wcall, wlast, scall>>
    BY <1>12 DEF vars, groupVars, wakerVars, sysregs
  <2>2. \A l \in Line : GroupAt(l[1], l[2])' = GroupAt(l[1], l[2])
    BY <1>12, GroupsStable DEF vars
  <2> QED
    BY <1>2, <2>1, <2>2 DEF OwnCalls, DoneSoFar, KeptAwake
<1>13. Rest'
  BY <1>3, <1>4, <1>5, <1>6, <1>7, <1>8, <1>9, <1>10, <1>11, <1>12 DEF Next
<1> QED
  BY <1>1, <1>13 DEF IInv, TypeOK, WakerIInv

(* The invariant holds in every reachable state.                           *)
THEOREM Invariance == Spec => []IInv
  BY InitIInv, NextIInv, PTL DEF Spec

(* Types are respected.                                                    *)
THEOREM TypeCorrect == Spec => []TypeOK
  BY Invariance, PTL DEF IInv

(* When setup is about to let the core take group 1 interrupts, all it     *)
(* promises is in force at once, although other cores use the driver       *)
(* between its calls and redistributors answer when they please            *)
(* (gicv3.rs:134-178).                                                     *)
THEOREM ReadyAtTheEnd == Spec => []SetupIsReady
<1>1. IInv => SetupIsReady
  BY DEF IInv, DoneSoFar, KeptAwake, SetupIsReady, Ready, At
<1> QED
  BY <1>1, Invariance, PTL

(* init_cpu and setup return with the redistributor awake, also when       *)
(* mark_core_awake has returned an error that init_cpu ignores; and it     *)
(* stays awake until a call of mark_core_asleep about this very core       *)
(* begins, whatever the other cores call (gicv3.rs:139, 333-353).          *)
THEOREM WakesTheCore == Spec => InitWakes
<1> DEFINE Asleep(c) == wcall'.op = "asleep" /\ wcall'.cpu = c
           Step == \A c \in Cpu :
                     /\ scall # Idle /\ scall.cpu = c /\ scall' = Idle => KeptAwake(c)'
                     /\ KeptAwake(c) => KeptAwake(c)' \/ Asleep(c)
<1>1. IInv /\ [Next]_vars => [Step]_vars
  <2> SUFFICES ASSUME IInv, Next PROVE Step
    OBVIOUS
  <2>0. /\ ps \in [Cpu -> BOOLEAN] /\ ca \in [Cpu -> BOOLEAN]
        /\ wlast \in [Cpu -> {"none", "awake", "asleep"}]
        /\ wcall \in {Idle} \cup WakerCall
    BY DEF IInv, TypeOK, WakerTypeOK
  <2>1. ASSUME NEW c \in Cpu, KeptAwake(c) PROVE KeptAwake(c)' \/ Asleep(c)
    <3>1. wcall # Idle => wcall.cpu \in Cpu /\ wcall.cpu # c
      BY <2>0, <2>1 DEF IInv, WakerIInv, NoneMeanwhile, KeptAwake, WakerCall
    <3>2. CASE UNCHANGED wakerVars
      BY <2>1, <3>2 DEF KeptAwake, wakerVars
    <3>3. ASSUME NEW d \in Cpu, MarkAwakeRead(d) \/ MarkAwakeErr(d) \/ MarkAsleepErr(d)
          PROVE  KeptAwake(c)'
      BY <2>0, <2>1, <3>3 DEF MarkAwakeRead, MarkAwakeErr, MarkAsleepErr, WakerReturn, KeptAwake
    <3>4. ASSUME NEW d \in Cpu, MarkAsleepRead(d)
          PROVE  KeptAwake(c)' \/ Asleep(c)
      BY <2>0, <2>1, <3>4 DEF MarkAsleepRead, KeptAwake
    <3>5. CASE MarkAwakeWrite \/ MarkAwakeWait \/ MarkAsleepWrite \/ MarkAsleepWait
      BY <2>0, <2>1, <3>1, <3>5 DEF MarkAwakeWrite, MarkAwakeWait, MarkAsleepWrite, MarkAsleepWait,
           WakerReturn, KeptAwake
    <3>6. ASSUME NEW d \in Cpu, Follow(d)
          PROVE  KeptAwake(c)'
      BY <2>0, <2>1, <3>6 DEF Follow, KeptAwake
    <3> QED
      BY <3>2, <3>3, <3>4, <3>5, <3>6, NextParts DEF IInv, WakerNext, WakerDriver
  <2>2. ASSUME NEW c \in Cpu, scall # Idle, scall.cpu = c, scall' = Idle
        PROVE  KeptAwake(c)'
    <3>1. scall \in SetupCall
      BY <2>2 DEF IInv, TypeOK
    <3>2. \A pc : ~GoTo(pc)
      BY <2>2, <3>1 DEF GoTo, SetupCall, Idle
    <3>3. WriteIccCtlr \/ WriteIgrpen1
      BY <2>2, <3>2 DEF Next, Begin, SetupStep, WriteSre, MarkAwake, MarkAwakeReturn, WriteGicdCtlr,
         ConfigureGroups, GroupsConfigured, ClientSetGroup, SetGroupStep, MarkCore, MarkCoreStep,
         ChangeControl, EnableGroup1, Answer, Idle
    <3>4. scall.pc \in {"icc_ctlr", "igrpen1"} /\ UNCHANGED wakerVars
      BY <3>3 DEF WriteIccCtlr, WriteIgrpen1, At
    <3> QED
      BY <2>2, <3>4 DEF IInv, DoneSoFar, KeptAwake, wakerVars
  <2> QED
    BY <2>1, <2>2
<1> QED
  BY <1>1, Invariance, PTL DEF Spec, InitWakes

(* The bring-up uses the group registers and the sleep handshake as they   *)
(* may be used: what is proved of each alone holds while cores come up     *)
(* (gicv3.rs:134-178).                                                     *)
THEOREM Parts == Spec => GroupSpec /\ WakerSpec
<1>1. Init => GroupInit /\ WakerInit
  BY DEF Init
<1>2. IInv /\ [Next]_vars => [GroupNext]_groupVars /\ [WakerNext]_wakerVars
  BY NextParts DEF IInv
<1> QED
  BY <1>1, <1>2, Invariance, PTL DEF Spec, GroupSpec, WakerSpec
=============================================================================
