------------------------ MODULE GicV3Delivery_proofs ------------------------
(***************************************************************************)
(* Proofs about GicV3Delivery for every number of cores, every assignment  *)
(* of groups and routes, and both builds of the driver.                    *)
(***************************************************************************)
EXTENDS GicV3Delivery, FramesLemmas, SequenceTheorems, TLAPS

(* What was last asked for is what the registers hold.                     *)
AskedHolds ==
  /\ asked.priority = priority
  /\ asked.edge = edge
  /\ asked.mask = pmr
  /\ asked.groups = igrpen

(* The AArch64 build sends every SGI through the register of its group.    *)
SgisAsSent == Arch = "aarch64" => SgisArrive

(* A level triggered peripheral is pending by its line alone.              *)
LatchedAreEdges == \A l \in latched : l[2] \in Peripheral => l \in edge

(* A core's software works on no interrupt twice at a time; the special    *)
(* answers may repeat.                                                     *)
HandledOnce ==
  \A c \in Cpu : \A i, j \in DOMAIN handling[c] :
    i # j /\ handling[c][i].id = handling[c][j].id => handling[c][i].id \in Special

(* The inductive invariant.                                                *)
IInv ==
  /\ TypeOK
  /\ AskedHolds
  /\ SgisAsSent
  /\ LatchedAreEdges
  /\ HandledOnce
  /\ ActiveIsHandled
  /\ WorldsOwnGroups

-----------------------------------------------------------------------------
(***************************************************************************)
(* Helpers.                                                                *)
(***************************************************************************)

(* No interrupt has a special identifier.                                  *)
LEMMA SpecialApart ==
  /\ IntIds \cap Special = {} /\ SPECIAL_NONE \notin IntIds
  /\ Sgi \subseteq IntIds /\ Peripheral \subseteq IntIds /\ Sgi \cap Peripheral = {}
<1>1. max_reg <= SPECIAL_START
  BY Geometry, IntIdAssumption, FramesAssumption DEF max_reg, num_spis, MAX_SPI_COUNT
<1>2. \A i \in IntIds : i \in Int /\ i < SPECIAL_START
  BY <1>1, Geometry, IntIdAssumption DEF IntIds, PrivateId, SpiId
<1> QED
  BY <1>2, DeliveryAssumption, IntIdAssumption
     DEF Special, SPECIAL_SECURE, SPECIAL_NONSECURE, SPECIAL_NMI, SPECIAL_NONE

(* The registers of a line that can reach core c are those a call for its  *)
(* identifier addresses on that core.                                      *)
LEMMA ReachingLine ==
  ASSUME NEW c \in Cpu, NEW l \in Reaching(c)
  PROVE  LineOf(l[2], c) = l /\ l \in Used /\ l \in Line /\ l[2] \in IntIds
<1>1. l \in Used /\ l \in Line /\ (l[1] = c \/ l[1] = Gicd)
  BY DEF Reaching, Used
<1>2. CASE l[1] = c
  <2>1. l[2] \in PrivateId
    BY <1>1, <1>2, LineType, IdsCover
  <2>2. is_private(l[2])
    BY <2>1, IntIdAssumption DEF PrivateId, is_private, is_sgi, is_ppi
  <2> QED
    BY <1>1, <1>2, <2>1, <2>2, LineType DEF LineOf, FrameOf, IntIds
<1>3. CASE l[1] = Gicd
  <2>1. l[2] \in SpiId
    BY <1>1, <1>3, LineType
  <2>2. ~is_private(l[2])
    BY <2>1, IntIdAssumption, Geometry DEF SpiId, is_private, is_sgi, is_ppi
  <2> QED
    BY <1>1, <1>3, <2>1, <2>2, LineType DEF LineOf, FrameOf, IntIds
<1> QED
  BY <1>1, <1>2, <1>3

(* An SGI is an interrupt of every core.                                   *)
LEMMA SgiLine ==
  ASSUME NEW c \in Cpu, NEW i \in Sgi
  PROVE  <<c, i>> \in Used
<1>1. i \in PrivateId
  BY DeliveryAssumption, IntIdAssumption, Geometry
     DEF IntIds, PrivateId, SpiId, is_sgi
<1> QED
  BY <1>1 DEF Used, Line

(* Both builds reach the registers of the two groups they name.            *)
LEMMA AccessedIsNamed ==
  ASSUME NEW r \in {"icc_iar0_el1", "icc_iar1_el1", "icc_eoir0_el1", "icc_eoir1_el1",
                    "icc_igrpen0_el1", "icc_igrpen1_el1"}
  PROVE  Accessed(Arch, r) = r
<1>1. CASE Arch = "aarch64"
  BY <1>1 DEF Accessed, Aarch64
<1>2. CASE Arch = "aarch32"
  <2>1. Accessed(Arch, r) = Aarch32(r)
    BY <1>2 DEF Accessed
  <2>2. /\ DOMAIN Sysreg = {"icc_hppir0_el1", "icc_hppir1_el1", "icc_iar0_el1", "icc_iar1_el1",
                           "icc_eoir0_el1", "icc_eoir1_el1", "icc_igrpen0_el1", "icc_igrpen1_el1",
                           "icc_ctlr_el1", "icc_sre_el1", "icc_pmr_el1",
                           "icc_asgi1r_el1", "icc_sgi0r_el1", "icc_sgi1r_el1"}
        /\ Sysreg["icc_hppir0_el1"] = <<0, "c12", "c8", 2>>
        /\ Sysreg["icc_hppir1_el1"] = <<0, "c12", "c12", 2>>
        /\ Sysreg["icc_iar0_el1"] = <<0, "c12", "c8", 0>>
        /\ Sysreg["icc_iar1_el1"] = <<0, "c12", "c12", 0>>
        /\ Sysreg["icc_eoir0_el1"] = <<0, "c12", "c8", 1>>
        /\ Sysreg["icc_eoir1_el1"] = <<0, "c12", "c12", 1>>
        /\ Sysreg["icc_igrpen0_el1"] = <<0, "c12", "c12", 6>>
        /\ Sysreg["icc_igrpen1_el1"] = <<0, "c12", "c12", 7>>
        /\ Sysreg["icc_ctlr_el1"] = <<0, "c12", "c12", 4>>
        /\ Sysreg["icc_sre_el1"] = <<0, "c12", "c12", 5>>
        /\ Sysreg["icc_pmr_el1"] = <<0, "c4", "c6", 0>>
    BY DEF Sysreg
  <2>3. /\ DOMAIN ArmEncoding = DOMAIN Sysreg
        /\ \A q \in DOMAIN Sysreg :
             q \notin {"icc_asgi1r_el1", "icc_sgi0r_el1", "icc_sgi1r_el1"} => ArmEncoding[q] = Sysreg[q]
        /\ ArmEncoding["icc_sgi1r_el1"] = <<0, "c12">>
        /\ ArmEncoding["icc_asgi1r_el1"] = <<1, "c12">>
        /\ ArmEncoding["icc_sgi0r_el1"] = <<2, "c12">>
    BY <2>2 DEF ArmEncoding
  <2>4. \A q \in DOMAIN ArmEncoding : ArmEncoding[q] = Sysreg[r] <=> q = r
    BY <2>2, <2>3
  <2>5. r \in DOMAIN ArmEncoding
    BY <2>2, <2>3
  <2> QED
    BY <2>1, <2>4, <2>5 DEF Aarch32
<1> QED
  BY <1>1, <1>2, DeliveryAssumption

(* The register that a world's calls use is the one of its group.          *)
LEMMA WorldRegisters ==
  ASSUME NEW w \in World
  PROVE  /\ IarOf(InterruptGroupOf(w)) = IF w = "EL3" THEN "icc_iar0_el1" ELSE "icc_iar1_el1"
         /\ EoirOf(InterruptGroupOf(w)) = IF w = "EL3" THEN "icc_eoir0_el1" ELSE "icc_eoir1_el1"
         /\ EnabledBy(IgrpenOf(InterruptGroupOf(w)), w) = GroupIn(w, InterruptGroupOf(w))
<1>1. InterruptGroupOf(w) = IF w = "EL3" THEN "Group0" ELSE "Group1"
  BY DEF InterruptGroupOf
<1>2. IarOf(InterruptGroupOf(w)) = IF w = "EL3" THEN "icc_iar0_el1" ELSE "icc_iar1_el1"
  BY <1>1, AccessedIsNamed DEF IarOf
<1>3. EoirOf(InterruptGroupOf(w)) = IF w = "EL3" THEN "icc_eoir0_el1" ELSE "icc_eoir1_el1"
  BY <1>1, AccessedIsNamed DEF EoirOf
<1>4. IgrpenOf(InterruptGroupOf(w)) = IF w = "EL3" THEN "icc_igrpen0_el1" ELSE "icc_igrpen1_el1"
  BY <1>1, AccessedIsNamed DEF IgrpenOf
<1> QED
  BY <1>1, <1>2, <1>3, <1>4 DEF EnabledBy, GroupIn

(* A world is answered with an interrupt's own identifier only when the    *)
(* interrupt's group belongs to it.                                        *)
LEMMA IarAnswer ==
  ASSUME NEW w \in World, NEW l \in Line, l[2] \in IntIds,
         NEW id, id = Iar(IarOf(InterruptGroupOf(w)), w, l), id # SPECIAL_NONE
  PROVE  /\ id \in IntIds \cup Special
         /\ id \notin Special => id = l[2] /\ WorldOf(GroupOf[l]) = w
<1> DEFINE owner == WorldOf(GroupOf[l])
<1>1. owner \in World
  BY DeliveryAssumption DEF WorldOf, Group, World
<1>2. CASE w = "EL3"
  <2>1. id = [EL3 |-> l[2], Secure |-> SPECIAL_SECURE, NonSecure |-> SPECIAL_NONSECURE][owner]
    BY <1>2, WorldRegisters DEF Iar
  <2> QED
    BY <1>1, <1>2, <2>1 DEF World, Special
<1>3. CASE w # "EL3"
  <2>1. id = l[2] /\ (owner = "NonSecure") = (w = "NonSecure") /\ owner # "EL3"
    BY <1>3, WorldRegisters DEF Iar
  <2> QED
    BY <1>1, <1>3, <2>1 DEF World
<1> QED
  BY <1>2, <1>3

(* SgiTarget and SgiTargetGroup mean what their documentation says, in the *)
(* AArch64 build.                                                          *)
LEMMA SgiMeaning ==
  ASSUME Arch = "aarch64", NEW me \in Cpu, NEW target \in SgiTarget, NEW group \in SgiTargetGroup
  PROVE  /\ Routed(me, SgiValue(target)) = Meant(me, target)
         /\ Forwards(SgiRegister(group)) = GroupMeant[group]
<1>1. Routed(me, SgiValue(target)) = Meant(me, target)
  BY DEF Routed, SgiValue, Meant
<1>2. \A r : Accessed(Arch, r) = r
  BY DEF Accessed, Aarch64
<1>3. group \in {"Group0", "CurrentGroup1", "OtherGroup1"}
  BY DEF SgiTargetGroup
<1>4. Forwards(SgiRegister(group)) = GroupMeant[group]
  BY <1>2, <1>3 DEF SgiRegister, Forwards, GroupMeant
<1> QED
  BY <1>1, <1>4

(* An answer pushed on the software's stack.                               *)
LEMMA StackPush ==
  ASSUME NEW S, NEW s \in Seq(S), NEW e \in S
  PROVE  /\ Append(s, e) \in Seq(S)
         /\ Len(s) \in Nat /\ DOMAIN s = 1 .. Len(s)
         /\ DOMAIN Append(s, e) = 1 .. Len(s) + 1 /\ Len(Append(s, e)) = Len(s) + 1
         /\ Append(s, e)[Len(s) + 1] = e
         /\ \A i \in 1 .. Len(s) : Append(s, e)[i] = s[i]
         /\ ToSet(Append(s, e)) = ToSet(s) \cup {e}
<1> DEFINE t == Append(s, e)
<1>1. /\ t \in Seq(S) /\ Len(t) = Len(s) + 1 /\ Len(s) \in Nat
      /\ DOMAIN s = 1 .. Len(s) /\ DOMAIN t = 1 .. Len(s) + 1
  OBVIOUS
<1>2. t[Len(s) + 1] = e /\ \A i \in 1 .. Len(s) : t[i] = s[i]
  OBVIOUS
<1>3. ToSet(t) = ToSet(s) \cup {e}
  BY <1>1, <1>2 DEF ToSet
<1> QED
  BY <1>1, <1>2, <1>3

(* The newest answer taken off it.                                         *)
LEMMA StackPop ==
  ASSUME NEW S, NEW s \in Seq(S), s # <<>>
  PROVE  /\ Front(s) \in Seq(S)
         /\ Len(s) \in Nat \ {0} /\ DOMAIN s = 1 .. Len(s)
         /\ Last(s) = s[Len(s)] /\ Last(s) \in S
         /\ DOMAIN Front(s) = 1 .. Len(s) - 1 /\ Len(Front(s)) = Len(s) - 1
         /\ \A i \in 1 .. Len(s) - 1 : Front(s)[i] = s[i]
         /\ ToSet(s) = ToSet(Front(s)) \cup {Last(s)}
<1> DEFINE t == Front(s)
           n == Len(s) - 1
<1>1. Len(s) \in Nat \ {0} /\ DOMAIN s = 1 .. Len(s) /\ \A i \in 1 .. Len(s) : s[i] \in S
  BY EmptySeq, LenProperties, ElementOfSeq
<1>2. t \in Seq(S) /\ Len(t) = n /\ \A i \in 1 .. n : t[i] = s[i]
  <2>1. 1 \in Int /\ n \in Int /\ \A i \in 1 .. n : s[i] \in S
    BY <1>1
  <2>2. /\ SubSeq(s, 1, n) \in Seq(S)
        /\ Len(SubSeq(s, 1, n)) = IF 1 <= n THEN n - 1 + 1 ELSE 0
        /\ \A i \in 1 .. n - 1 + 1 : SubSeq(s, 1, n)[i] = s[1 + i - 1]
    BY ONLY <2>1, SubSeqProperties
  <2> QED
    BY <1>1, <2>2 DEF Front
<1>3. DOMAIN t = 1 .. n
  BY <1>2, LenProperties
<1>4. ToSet(s) = ToSet(t) \cup {Last(s)}
  <2>1. ToSet(s) = {s[i] : i \in 1 .. n} \cup {s[Len(s)]}
    BY <1>1 DEF ToSet
  <2>2. ToSet(t) = {s[i] : i \in 1 .. n}
    BY <1>2, <1>3 DEF ToSet
  <2> QED
    BY <2>1, <2>2 DEF Last
<1> QED
  BY <1>1, <1>2, <1>3, <1>4 DEF Last

-----------------------------------------------------------------------------
(***************************************************************************)
(* The inductive invariant.                                                *)
(***************************************************************************)
(* At boot nothing is active and nothing is handled.                       *)
LEMMA InitIInv == Init => IInv
<1> SUFFICES ASSUME Init PROVE IInv
  OBVIOUS
<1>1. \A c \in Cpu : handling[c] = <<>> /\ active[c] = {}
  BY DEF Init
<1>2. PICK m \in Mask : pmr = [c \in Cpu |-> m]
  BY DEF Init
<1>3. /\ priority \in [Used -> Priority] /\ pmr \in [Cpu -> Mask]
      /\ igrpen \in [Cpu -> SUBSET Group]
      /\ handling \in [Cpu -> Seq([id : IntIds \cup Special, world : World])]
      /\ active \in [Cpu -> SUBSET [id : IntIds, priority : Priority]]
  BY <1>2, DeliveryAssumption DEF Init
<1>4. /\ asked.priority = priority /\ asked.edge = edge /\ asked.mask = pmr
      /\ asked.groups = igrpen /\ asked.sgis = {}
      /\ asked = [priority |-> priority, edge |-> edge, mask |-> pmr, groups |-> igrpen, sgis |-> {}]
      /\ raised = {} /\ latched = {} /\ edge = {}
  BY DEF Init
<1>5. TypeOK
  BY <1>1, <1>3, <1>4, DeliveryAssumption DEF TypeOK
<1>6. AskedHolds /\ SgisAsSent /\ LatchedAreEdges
  BY <1>4 DEF AskedHolds, SgisAsSent, SgisArrive, LatchedAreEdges
<1>7. \A c \in Cpu : Real(c) = {} /\ DOMAIN handling[c] = {}
  BY <1>1 DEF Real, ToSet
<1>8. HandledOnce /\ ActiveIsHandled /\ WorldsOwnGroups
  BY <1>1, <1>7 DEF HandledOnce, ActiveIsHandled, WorldsOwnGroups
<1> QED
  BY <1>5, <1>6, <1>8 DEF IInv

(* The answers a core works on.                                            *)
Answer == [id : IntIds \cup Special, world : World]

(* A step that leaves the stacks and the active interrupts alone leaves    *)
(* their agreement alone.                                                  *)
LEMMA HandlingStable ==
  ASSUME IInv, UNCHANGED <<active, handling>>
  PROVE  HandledOnce' /\ ActiveIsHandled' /\ WorldsOwnGroups'
<1>1. \A c \in Cpu : Real(c)' = Real(c)
  BY DEF Real
<1> QED
  BY <1>1 DEF IInv, HandledOnce, ActiveIsHandled, WorldsOwnGroups

(* What an acknowledgement by core c in world w does.                      *)
LEMMA AcknowledgeStep ==
  ASSUME IInv, NEW c \in Cpu, NEW w \in World, GetAndAcknowledgeInterrupt(c, w)
  PROVE  \E l \in Best(c), id \in IntIds \cup Special :
           /\ id \notin Special => id = l[2] /\ WorldOf(GroupOf[l]) = w
           /\ Len(handling[c]) < MaxNesting
           /\ handling' = [handling EXCEPT ![c] = Append(@, [id |-> id, world |-> w])]
           /\ id \in Special => UNCHANGED <<latched, active, asked>>
           /\ id \notin Special =>
                /\ latched' = latched \ {l}
                /\ asked' = [asked EXCEPT !.sgis = @ \ {l}]
                /\ active' = [active EXCEPT ![c] = @ \cup {[id |-> id, priority |-> priority[l]]}]
           /\ UNCHANGED <<raised, edge, priority, pmr, igrpen>>
<1>1. PICK l \in Best(c) :
        LET id == Iar(IarOf(InterruptGroupOf(w)), w, l)
        IN  /\ id # SPECIAL_NONE
            /\ handling' = [handling EXCEPT ![c] = Append(@, [id |-> id, world |-> w])]
            /\ IF id \in Special THEN UNCHANGED <<latched, active, asked>>
               ELSE /\ latched' = latched \ {l}
                    /\ asked' = [asked EXCEPT !.sgis = @ \ {l}]
                    /\ active' = [active EXCEPT ![c] =
                                    @ \cup {[id |-> id, priority |-> priority[l]]}]
  BY DEF GetAndAcknowledgeInterrupt
<1> DEFINE id == Iar(IarOf(InterruptGroupOf(w)), w, l)
<1>2. l \in Line /\ l[2] \in IntIds
  BY ReachingLine DEF Best, Eligible
<1>3. id # SPECIAL_NONE
  BY <1>1
<1>4. /\ id \in IntIds \cup Special
      /\ id \notin Special => id = l[2] /\ WorldOf(GroupOf[l]) = w
  BY <1>2, <1>3, IarAnswer
<1>5. Len(handling[c]) < MaxNesting /\ UNCHANGED <<raised, edge, priority, pmr, igrpen>>
  BY DEF GetAndAcknowledgeInterrupt
<1> HIDE DEF id
<1>6. /\ handling' = [handling EXCEPT ![c] = Append(@, [id |-> id, world |-> w])]
      /\ id \in Special => UNCHANGED <<latched, active, asked>>
      /\ id \notin Special =>
           /\ latched' = latched \ {l}
           /\ asked' = [asked EXCEPT !.sgis = @ \ {l}]
           /\ active' = [active EXCEPT ![c] = @ \cup {[id |-> id, priority |-> priority[l]]}]
  BY <1>1 DEF id
<1> QED
  BY <1>4, <1>5, <1>6

(* The identifiers in a set with one more element.                         *)
LEMMA IdsOfUnion ==
  \A X, y : {a.id : a \in X \cup {y}} = {a.id : a \in X} \cup {y.id}
  OBVIOUS

(* Acknowledging keeps the software's stack and the active interrupts in   *)
(* agreement: the answer is an interrupt that was not active, or special.  *)
LEMMA AcknowledgeIInv ==
  ASSUME IInv, NEW c \in Cpu, NEW w \in World, GetAndAcknowledgeInterrupt(c, w)
  PROVE  IInv'
<1>1. PICK l \in Best(c), id \in IntIds \cup Special :
           /\ id \notin Special => id = l[2] /\ WorldOf(GroupOf[l]) = w
           /\ Len(handling[c]) < MaxNesting
           /\ handling' = [handling EXCEPT ![c] = Append(@, [id |-> id, world |-> w])]
           /\ id \in Special => UNCHANGED <<latched, active, asked>>
           /\ id \notin Special =>
                /\ latched' = latched \ {l}
                /\ asked' = [asked EXCEPT !.sgis = @ \ {l}]
                /\ active' = [active EXCEPT ![c] = @ \cup {[id |-> id, priority |-> priority[l]]}]
           /\ UNCHANGED <<raised, edge, priority, pmr, igrpen>>
  BY AcknowledgeStep
<1> DEFINE e == [id |-> id, world |-> w]
           s == handling[c]
<1>2. /\ l \in Used /\ l[2] \in IntIds /\ LineOf(l[2], c) = l
      /\ \A a \in active[c] : a.id # l[2]
  BY ReachingLine DEF Best, Eligible
<1>3. /\ TypeOK /\ s \in Seq(Answer) /\ e \in Answer /\ MaxNesting \in Nat
  BY DeliveryAssumption DEF IInv, TypeOK, Answer
<1>4. handling'[c] = Append(s, e) /\ \A d \in Cpu : d # c => handling'[d] = handling[d]
  BY <1>1, <1>3 DEF TypeOK
<1>5. /\ Append(s, e) \in Seq(Answer)
      /\ Len(s) \in Nat /\ DOMAIN s = 1 .. Len(s)
      /\ DOMAIN Append(s, e) = 1 .. Len(s) + 1 /\ Len(Append(s, e)) = Len(s) + 1
      /\ Append(s, e)[Len(s) + 1] = e
      /\ \A i \in 1 .. Len(s) : Append(s, e)[i] = s[i]
      /\ ToSet(Append(s, e)) = ToSet(s) \cup {e}
  BY <1>3, StackPush
<1>6. /\ \A d \in Cpu : d # c => active'[d] = active[d] /\ Real(d)' = Real(d)
      /\ id \in Special => active'[c] = active[c] /\ Real(c)' = Real(c)
      /\ id \notin Special => /\ active'[c] = active[c] \cup {[id |-> id, priority |-> priority[l]]}
                              /\ Real(c)' = Real(c) \cup {e}
  BY <1>1, <1>3, <1>4, <1>5 DEF TypeOK, Real
<1>7. TypeOK'
  <2>1. handling' \in [Cpu -> Seq(Answer)]
    BY <1>1, <1>3, <1>4, <1>5 DEF TypeOK, Answer
  <2>2. \A d \in Cpu : Len(handling'[d]) <= MaxNesting
    BY <1>1, <1>3, <1>4, <1>5 DEF TypeOK
  <2>3. active' \in [Cpu -> SUBSET [id : IntIds, priority : Priority]]
    <3>1. id \notin Special =>
            [id |-> id, priority |-> priority[l]] \in [id : IntIds, priority : Priority]
      BY <1>1, <1>2, <1>3 DEF TypeOK
    <3>2. CASE id \in Special
      BY <1>1, <1>3, <3>2 DEF TypeOK
    <3>3. CASE id \notin Special
      <4> DEFINE R == [id : IntIds, priority : Priority]
                 a == [id |-> id, priority |-> priority[l]]
      <4>1. a \in R /\ active' = [active EXCEPT ![c] = @ \cup {a}]
        BY <1>1, <3>1, <3>3
      <4>2. active \in [Cpu -> SUBSET R]
        BY <1>3 DEF TypeOK
      <4> HIDE DEF R, a
      <4>3. active' \in [Cpu -> SUBSET R]
        BY <4>1, <4>2
      <4> QED
        BY <4>3 DEF R
    <3> QED
      BY <3>2, <3>3
  <2>4. latched' \in SUBSET Used
    BY <1>1, <1>3 DEF TypeOK
  <2>5. asked' \in [priority : [Used -> Priority], edge : SUBSET Used, mask : [Cpu -> Mask],
                    groups : [Cpu -> SUBSET Group], sgis : SUBSET Used]
    <3>1. asked' = asked \/ asked' = [asked EXCEPT !.sgis = @ \ {l}]
      BY <1>1
    <3> QED
      BY <1>3, <3>1 DEF TypeOK
  <2> QED
    BY <1>1, <1>3, <2>1, <2>2, <2>3, <2>4, <2>5 DEF TypeOK, Answer
<1>8. AskedHolds' /\ LatchedAreEdges'
  BY <1>1, <1>3 DEF IInv, TypeOK, AskedHolds, LatchedAreEdges
<1>9. SgisAsSent'
  BY <1>1, <1>3 DEF IInv, TypeOK, SgisAsSent, SgisArrive
<1>10. HandledOnce'
  <2> SUFFICES ASSUME NEW d \in Cpu, NEW i \in DOMAIN handling'[d], NEW j \in DOMAIN handling'[d],
                      i # j, handling'[d][i].id = handling'[d][j].id,
                      handling'[d][i].id \notin Special
               PROVE  FALSE
    BY DEF HandledOnce
  <2>1. d = c
    BY <1>4 DEF IInv, HandledOnce
  <2>2. \A k \in 1 .. Len(s) : s[k].id \in Special \/ s[k].id # id
    <3> SUFFICES ASSUME NEW k \in 1 .. Len(s), s[k].id \notin Special, s[k].id = id
                 PROVE  FALSE
      OBVIOUS
    <3>1. s[k] \in Real(c)
      BY <1>5 DEF Real, ToSet
    <3>2. s[k].id \in {a.id : a \in active[c]}
      <4>1. s[k].id \in {f.id : f \in Real(c)}
        BY <3>1
      <4> QED
        BY <4>1 DEF IInv, ActiveIsHandled
    <3> QED
      BY <1>1, <1>2, <3>2
  <2>3. i \in 1 .. Len(s) + 1 /\ j \in 1 .. Len(s) + 1 /\ handling'[d] = Append(s, e)
    BY <1>4, <1>5, <2>1
  <2>4. CASE i = Len(s) + 1
    BY <1>5, <2>2, <2>3, <2>4
  <2>5. CASE j = Len(s) + 1
    BY <1>5, <2>2, <2>3, <2>5
  <2>6. CASE i # Len(s) + 1 /\ j # Len(s) + 1
    <3>1. i \in 1 .. Len(s) /\ j \in 1 .. Len(s)
      BY <1>5, <2>3, <2>6
    <3>2. handling'[d][i] = s[i] /\ handling'[d][j] = s[j]
      BY <1>5, <2>3, <3>1
    <3> QED
      BY <1>5, <3>1, <3>2 DEF IInv, HandledOnce
  <2> QED
    BY <2>4, <2>5, <2>6
<1>11. ActiveIsHandled'
  <2>1. \A d \in Cpu : {a.id : a \in active[d]} = {f.id : f \in Real(d)}
    BY DEF IInv, ActiveIsHandled
  <2> DEFINE b == [id |-> id, priority |-> priority[l]]
  <2>2. id \notin Special => {a.id : a \in active'[c]} = {a.id : a \in active[c]} \cup {id}
    <3>1. {a.id : a \in active[c] \cup {b}} = {a.id : a \in active[c]} \cup {b.id}
      BY ONLY IdsOfUnion
    <3> QED
      BY <1>6, <3>1
  <2>3. id \notin Special => {f.id : f \in Real(c)'} = {f.id : f \in Real(c)} \cup {id}
    <3>1. {f.id : f \in Real(c) \cup {e}} = {f.id : f \in Real(c)} \cup {e.id}
      BY ONLY IdsOfUnion
    <3> QED
      BY <1>6, <3>1
  <2>4. \A d \in Cpu : {a.id : a \in active'[d]} = {f.id : f \in Real(d)'}
    BY <1>6, <2>1, <2>2, <2>3
  <2> QED
    BY <2>4 DEF ActiveIsHandled
<1>12. WorldsOwnGroups'
  <2>1. id \notin Special => WorldOf(GroupOf[LineOf(e.id, c)]) = e.world
    BY <1>1, <1>2
  <2>2. \A d \in Cpu : \A f \in Real(d)' : f \in Real(d) \/ (d = c /\ id \notin Special /\ f = e)
    BY <1>6
  <2> QED
    BY <2>1, <2>2 DEF IInv, WorldsOwnGroups
<1> QED
  BY <1>7, <1>8, <1>9, <1>10, <1>11, <1>12 DEF IInv

(* The identifiers in a set without those of one identifier.               *)
LEMMA IdsWithout ==
  \A X, v : {a.id : a \in {x \in X : x.id # v}} = {a.id : a \in X} \ {v}
  OBVIOUS

(* Ending the newest answer deactivates its interrupt and no other, and    *)
(* none when the answer is a special one.                                  *)
LEMMA EndIInv ==
  ASSUME IInv, NEW c \in Cpu, EndInterrupt(c)
  PROVE  IInv'
<1> DEFINE s == handling[c]
           e == Last(s)
<1>1. TypeOK /\ s \in Seq(Answer) /\ s # <<>>
  BY DEF IInv, TypeOK, Answer, EndInterrupt
<1>2. /\ Front(s) \in Seq(Answer)
      /\ Len(s) \in Nat \ {0} /\ DOMAIN s = 1 .. Len(s)
      /\ e = s[Len(s)] /\ e \in Answer
      /\ DOMAIN Front(s) = 1 .. Len(s) - 1 /\ Len(Front(s)) = Len(s) - 1
      /\ \A i \in 1 .. Len(s) - 1 : Front(s)[i] = s[i]
      /\ ToSet(s) = ToSet(Front(s)) \cup {e}
  BY <1>1, StackPop
<1>3. Ended(c, e.id, EoirOf(InterruptGroupOf(e.world)), e.world) = {a \in active[c] : a.id # e.id}
  BY <1>2, WorldRegisters DEF Ended, Answer
<1>4. /\ active' = [active EXCEPT ![c] = {a \in active[c] : a.id # e.id}]
      /\ handling' = [handling EXCEPT ![c] = Front(@)]
      /\ UNCHANGED <<raised, latched, edge, priority, pmr, igrpen, asked>>
  BY <1>3 DEF EndInterrupt, config
<1>5. /\ handling'[c] = Front(s) /\ active'[c] = {a \in active[c] : a.id # e.id}
      /\ \A d \in Cpu : d # c => handling'[d] = handling[d] /\ active'[d] = active[d]
  BY <1>1, <1>4 DEF TypeOK
<1>6. TypeOK'
  <2>1. handling' \in [Cpu -> Seq(Answer)]
    BY <1>1, <1>2, <1>4 DEF TypeOK, Answer
  <2>2. \A d \in Cpu : Len(handling'[d]) <= MaxNesting
    BY <1>1, <1>2, <1>5, DeliveryAssumption DEF TypeOK
  <2>3. active' \in [Cpu -> SUBSET [id : IntIds, priority : Priority]]
    BY <1>1, <1>4 DEF TypeOK
  <2> QED
    BY <1>1, <1>4, <2>1, <2>2, <2>3 DEF TypeOK, Answer
<1>7. AskedHolds' /\ LatchedAreEdges' /\ SgisAsSent'
  BY <1>4 DEF IInv, AskedHolds, LatchedAreEdges, SgisAsSent, SgisArrive
<1>8. HandledOnce'
  <2>1. \A d \in Cpu : DOMAIN handling'[d] \subseteq DOMAIN handling[d]
                       /\ \A i \in DOMAIN handling'[d] : handling'[d][i] = handling[d][i]
    BY <1>2, <1>5
  <2> QED
    BY <2>1 DEF IInv, HandledOnce
<1>9. Real(c)' = {f \in Real(c) : f.id # e.id}
  <2>1. Real(c)' = {f \in ToSet(Front(s)) : f.id \notin Special}
    BY <1>5 DEF Real
  <2>2. \A f \in ToSet(Front(s)) : f.id \notin Special => f.id # e.id
    <3> SUFFICES ASSUME NEW f \in ToSet(Front(s)), f.id \notin Special, f.id = e.id
                 PROVE  FALSE
      OBVIOUS
    <3>1. PICK i \in 1 .. Len(s) - 1 : s[i] = f
      BY <1>2 DEF ToSet
    <3>2. /\ i \in DOMAIN handling[c] /\ Len(s) \in DOMAIN handling[c] /\ i # Len(s)
          /\ handling[c][i].id = handling[c][Len(s)].id
      BY <1>2, <3>1
    <3>3. handling[c][i].id \in Special
      BY <3>2 DEF IInv, HandledOnce
    <3> QED
      BY <3>1, <3>3
  <2> QED
    BY <1>2, <2>1, <2>2 DEF Real
<1>10. ActiveIsHandled'
  <2>1. \A d \in Cpu : {a.id : a \in active[d]} = {f.id : f \in Real(d)}
    BY DEF IInv, ActiveIsHandled
  <2>2. {a.id : a \in active'[c]} = {a.id : a \in active[c]} \ {e.id}
    <3>1. {a.id : a \in {x \in active[c] : x.id # e.id}} = {a.id : a \in active[c]} \ {e.id}
      BY ONLY IdsWithout
    <3> QED
      BY <1>5, <3>1
  <2>3. {f.id : f \in Real(c)'} = {f.id : f \in Real(c)} \ {e.id}
    <3>1. {f.id : f \in {x \in Real(c) : x.id # e.id}} = {f.id : f \in Real(c)} \ {e.id}
      BY ONLY IdsWithout
    <3> QED
      BY <1>9, <3>1
  <2>4. \A d \in Cpu : d # c => active'[d] = active[d] /\ Real(d)' = Real(d)
    BY <1>5 DEF Real
  <2>5. \A d \in Cpu : {a.id : a \in active'[d]} = {f.id : f \in Real(d)'}
    BY <2>1, <2>2, <2>3, <2>4
  <2> QED
    BY <2>5 DEF ActiveIsHandled
<1>11. WorldsOwnGroups'
  <2>1. \A d \in Cpu : Real(d)' \subseteq Real(d)
    BY <1>5, <1>9 DEF Real
  <2> QED
    BY <2>1 DEF IInv, WorldsOwnGroups
<1> QED
  BY <1>6, <1>7, <1>8, <1>10, <1>11 DEF IInv

(* Every step keeps the invariant.                                         *)
LEMMA NextIInv == IInv /\ [Next]_vars => IInv'
<1> SUFFICES ASSUME IInv, [Next]_vars PROVE IInv'
  OBVIOUS
<1>t. TypeOK /\ AskedHolds /\ SgisAsSent /\ LatchedAreEdges
  BY DEF IInv
<1>k. \A i \in Sgi \cup Peripheral, c \in Cpu : i \in IntIds
  BY SpecialApart
<1> USE DEF AskedHolds, LatchedAreEdges
<1>1. ASSUME NEW c \in Cpu, NEW i \in Sgi, NEW target \in SgiTarget, NEW group \in SgiTargetGroup,
             SendSgi(c, i, target, group)
      PROVE  IInv'
  <2> DEFINE routed == {<<d, i>> : d \in {b \in Routed(c, SgiValue(target)) :
                                           GroupOf[<<b, i>>] = Forwards(SgiRegister(group))}}
             meant == {<<d, i>> : d \in {b \in Meant(c, target) : GroupOf[<<b, i>>] = GroupMeant[group]}}
  <2>1. /\ latched' = latched \cup routed
        /\ asked' = [asked EXCEPT !.sgis = @ \cup meant]
        /\ UNCHANGED <<raised, active, handling, edge, priority, pmr, igrpen>>
    BY <1>1 DEF SendSgi
  <2>2. routed \subseteq Used /\ meant \subseteq Used
    BY SgiLine DEF Routed, Meant
  <2>3. \A l \in routed \cup meant : l[2] \in Sgi /\ l[2] \notin Peripheral
    <3>1. \A l \in routed \cup meant : \E d : l = <<d, i>>
      OBVIOUS
    <3> HIDE DEF routed, meant
    <3>2. i \in Sgi /\ i \notin Peripheral
      BY SpecialApart
    <3> QED
      BY <3>1, <3>2
  <2>4. Arch = "aarch64" => routed = meant
    BY SgiMeaning
  <2> HIDE DEF routed, meant
  <2>5. TypeOK'
    BY <1>t, <2>1, <2>2 DEF TypeOK
  <2>6. AskedHolds' /\ LatchedAreEdges'
    BY <1>t, <2>1, <2>3 DEF TypeOK
  <2>7. SgisAsSent'
    BY <1>t, <2>1, <2>3, <2>4 DEF TypeOK, SgisAsSent, SgisArrive
  <2> QED
    BY <2>1, <2>5, <2>6, <2>7, HandlingStable DEF IInv
<1>2. ASSUME NEW c \in Cpu, NEW w \in World, GetAndAcknowledgeInterrupt(c, w)
      PROVE  IInv'
  BY <1>2, AcknowledgeIInv
<1>3. ASSUME NEW c \in Cpu, EndInterrupt(c)
      PROVE  IInv'
  BY <1>3, EndIInv
<1>4. ASSUME NEW c \in Cpu, NEW w \in World, NEW enable \in BOOLEAN, EnableGroup(c, w, enable)
      PROVE  IInv'
  <2> DEFINE g == GroupIn(w, InterruptGroupOf(w))
  <2>1. g \in Group
    BY DEF GroupIn, Group
  <2>2. /\ igrpen' = [igrpen EXCEPT ![c] = IF enable THEN @ \cup {g} ELSE @ \ {g}]
        /\ asked' = [asked EXCEPT !.groups[c] = IF enable THEN @ \cup {g} ELSE @ \ {g}]
        /\ UNCHANGED <<raised, latched, active, handling, edge, priority, pmr>>
    BY <1>4, WorldRegisters DEF EnableGroup
  <2> HIDE DEF g
  <2>3. /\ asked'.groups = igrpen'
        /\ asked'.priority = asked.priority /\ asked'.edge = asked.edge
        /\ asked'.mask = asked.mask /\ asked'.sgis = asked.sgis
    BY <1>t, <2>2 DEF TypeOK
  <2>4. TypeOK'
    BY <1>t, <2>1, <2>2 DEF TypeOK
  <2>5. AskedHolds' /\ LatchedAreEdges' /\ SgisAsSent'
    BY <1>t, <2>2, <2>3 DEF SgisAsSent, SgisArrive
  <2> QED
    BY <2>2, <2>4, <2>5, HandlingStable DEF IInv
<1>5. ASSUME NEW c \in Cpu, NEW m \in Mask, SetPriorityMask(c, m)
      PROVE  IInv'
  <2>1. /\ pmr' = [pmr EXCEPT ![c] = m]
        /\ asked' = [asked EXCEPT !.mask[c] = m]
        /\ UNCHANGED <<raised, latched, active, handling, edge, priority, igrpen>>
    BY <1>5 DEF SetPriorityMask
  <2>2. /\ asked'.mask = pmr'
        /\ asked'.priority = asked.priority /\ asked'.edge = asked.edge
        /\ asked'.groups = asked.groups /\ asked'.sgis = asked.sgis
    BY <1>t, <2>1 DEF TypeOK
  <2>3. TypeOK'
    BY <1>t, <2>1 DEF TypeOK
  <2>4. AskedHolds' /\ LatchedAreEdges' /\ SgisAsSent'
    BY <1>t, <2>1, <2>2 DEF SgisAsSent, SgisArrive
  <2> QED
    BY <2>1, <2>3, <2>4, HandlingStable DEF IInv
<1>6. ASSUME NEW c \in Cpu, NEW i \in Sgi \cup Peripheral, NEW p \in Priority,
             SetInterruptPriority(i, c, p)
      PROVE  IInv'
  <2> DEFINE l == LineOf(i, c)
  <2>1. /\ priority' = [priority EXCEPT ![l] = p]
        /\ asked' = [asked EXCEPT !.priority[l] = p]
        /\ UNCHANGED <<raised, latched, active, handling, edge, pmr, igrpen>>
    BY <1>6 DEF SetInterruptPriority
  <2> HIDE DEF l
  <2>2. /\ asked'.priority = priority'
        /\ asked'.mask = asked.mask /\ asked'.edge = asked.edge
        /\ asked'.groups = asked.groups /\ asked'.sgis = asked.sgis
    BY <1>t, <2>1 DEF TypeOK
  <2>3. TypeOK'
    BY <1>t, <2>1 DEF TypeOK
  <2>4. AskedHolds' /\ LatchedAreEdges' /\ SgisAsSent'
    BY <1>t, <2>1, <2>2 DEF SgisAsSent, SgisArrive
  <2> QED
    BY <2>1, <2>3, <2>4, HandlingStable DEF IInv
<1>7. ASSUME NEW c \in Cpu, NEW i \in Peripheral, NEW isEdge \in BOOLEAN, SetTrigger(i, c, isEdge)
      PROVE  IInv'
  <2> DEFINE l == LineOf(i, c)
  <2>1. /\ l \notin latched
        /\ edge' = IF isEdge THEN edge \cup {l} ELSE edge \ {l}
        /\ asked' = [asked EXCEPT !.edge = IF isEdge THEN @ \cup {l} ELSE @ \ {l}]
        /\ UNCHANGED <<raised, latched, active, handling, priority, pmr, igrpen>>
    BY <1>7 DEF SetTrigger, Quiet
  <2>2. l \in Used
    BY <1>k, FrameOfLine DEF LineOf, Used
  <2> HIDE DEF l
  <2>3. /\ asked'.edge = edge'
        /\ asked'.priority = asked.priority /\ asked'.mask = asked.mask
        /\ asked'.groups = asked.groups /\ asked'.sgis = asked.sgis
    BY <1>t, <2>1 DEF TypeOK
  <2>4. TypeOK'
    BY <1>t, <2>1, <2>2 DEF TypeOK
  <2>5. AskedHolds' /\ LatchedAreEdges' /\ SgisAsSent'
    BY <1>t, <2>1, <2>3 DEF SgisAsSent, SgisArrive
  <2> QED
    BY <2>1, <2>4, <2>5, HandlingStable DEF IInv
<1>8. ASSUME NEW l \in Used, Raise(l) \/ Lower(l)
      PROVE  IInv'
  <2>1. /\ UNCHANGED <<active, handling, edge, priority, pmr, igrpen, asked>>
        /\ latched' = latched
           \/ (l[2] \in Peripheral /\ l \in edge /\ latched' = latched \cup {l})
        /\ raised' \in SUBSET Used
    BY <1>8, <1>t DEF Raise, Lower, config, TypeOK
  <2>2. TypeOK'
    BY <1>t, <2>1 DEF TypeOK
  <2>3. AskedHolds' /\ LatchedAreEdges'
    BY <1>t, <2>1
  <2>4. SgisAsSent'
    BY <1>t, <2>1, SpecialApart DEF SgisAsSent, SgisArrive
  <2> QED
    BY <2>1, <2>2, <2>3, <2>4, HandlingStable DEF IInv
<1>9. CASE UNCHANGED vars
  <2>1. TypeOK' /\ AskedHolds' /\ LatchedAreEdges' /\ SgisAsSent'
    BY <1>t, <1>9 DEF vars, config, TypeOK, SgisAsSent, SgisArrive
  <2> QED
    BY <1>9, <2>1, HandlingStable DEF IInv, vars
<1> QED
  BY <1>1, <1>2, <1>3, <1>4, <1>5, <1>6, <1>7, <1>8, <1>9 DEF Next

-----------------------------------------------------------------------------
(* The invariant holds in every reachable state.                           *)
THEOREM Invariance == Spec => []IInv
  BY InitIInv, NextIInv, PTL DEF Spec

(* Types are respected.                                                    *)
THEOREM TypeCorrect == Spec => []TypeOK
  BY Invariance, PTL DEF IInv

(* The interrupts active at a core are those its software works on, in     *)
(* both builds, whatever worlds its handlers belong to and whatever        *)
(* special answers it gets and ends (gicv3.rs:381-403).                    *)
THEOREM ActiveHandled == Spec => []ActiveIsHandled
  BY Invariance, PTL DEF IInv

(* A world is given the interrupts of its own group only                   *)
(* (gicv3.rs:381-395).                                                     *)
THEOREM OwnGroups == Spec => []WorldsOwnGroups
  BY Invariance, PTL DEF IInv

(* In the AArch64 build every SGI arrives at the cores it is meant for, in *)
(* the group it is meant for, and nowhere else (gicv3.rs:328-358).  The    *)
(* AArch32 build writes every SGI to one register, which a run shows.      *)
THEOREM Aarch64SgisArrive ==
  ASSUME Arch = "aarch64" PROVE Spec => []SgisArrive
<1>1. IInv => SgisArrive
  BY DEF IInv, SgisAsSent
<1> QED
  BY <1>1, Invariance, PTL

(* The step that takes an interrupt to a core.                             *)
LEMMA TakingStep ==
  ASSUME IInv, Next, NEW c \in Cpu, NEW a \in active'[c] \ active[c]
  PROVE  \E w \in World, l \in Best(c) :
           /\ GetAndAcknowledgeInterrupt(c, w)
           /\ a.id = l[2] /\ LineOf(a.id, c) = l
<1>t. TypeOK
  BY DEF IInv
<1>1. ~UNCHANGED active
  OBVIOUS
<1>2. PICK d \in Cpu : EndInterrupt(d) \/ \E w \in World : GetAndAcknowledgeInterrupt(d, w)
  BY <1>1 DEF Next, SendSgi, EnableGroup, SetPriorityMask, SetInterruptPriority, SetTrigger, Raise, Lower
<1>3. ~EndInterrupt(d)
  <2> SUFFICES ASSUME EndInterrupt(d)
               PROVE  FALSE
    OBVIOUS
  <2> DEFINE e == Last(handling[d])
             left == Ended(d, e.id, EoirOf(InterruptGroupOf(e.world)), e.world)
  <2>1. active' = [active EXCEPT ![d] = left]
    BY DEF EndInterrupt
  <2>2. left \subseteq active[d]
    BY DEF Ended
  <2> HIDE DEF left
  <2> QED
    BY <1>t, <2>1, <2>2 DEF TypeOK
<1>4. PICK w \in World : GetAndAcknowledgeInterrupt(d, w)
  BY <1>2, <1>3
<1>5. PICK l \in Best(d), id \in IntIds \cup Special :
         /\ id \notin Special => id = l[2] /\ WorldOf(GroupOf[l]) = w
         /\ Len(handling[d]) < MaxNesting
         /\ handling' = [handling EXCEPT ![d] = Append(@, [id |-> id, world |-> w])]
         /\ id \in Special => UNCHANGED <<latched, active, asked>>
         /\ id \notin Special =>
              /\ latched' = latched \ {l}
              /\ asked' = [asked EXCEPT !.sgis = @ \ {l}]
              /\ active' = [active EXCEPT ![d] = @ \cup {[id |-> id, priority |-> priority[l]]}]
         /\ UNCHANGED <<raised, edge, priority, pmr, igrpen>>
  BY <1>4, AcknowledgeStep
<1>6. id \notin Special /\ id = l[2]
  BY <1>1, <1>5
<1>7. d = c /\ a = [id |-> id, priority |-> priority[l]]
  <2> DEFINE b == [id |-> id, priority |-> priority[l]]
  <2>1. active' = [active EXCEPT ![d] = @ \cup {b}]
    BY <1>5, <1>6
  <2> HIDE DEF b
  <2>2. d = c /\ a = b
    BY <1>t, <2>1 DEF TypeOK
  <2> QED
    BY <2>2 DEF b
<1>8. LineOf(l[2], c) = l
  BY <1>7, ReachingLine DEF Best, Eligible
<1> QED
  BY <1>4, <1>6, <1>7, <1>8

(* Nothing is taken against the mask, the running priority or a group last *)
(* asked for (gicv3.rs:181-190, 243-270, 381-395).                         *)
THEOREM TakenWhenAsked == Spec => TakenAsAsked
<1> DEFINE Step == \A c \in Cpu : \A a \in active'[c] \ active[c] :
       LET p == asked.priority[LineOf(a.id, c)]
       IN  /\ p < asked.mask[c]
           /\ \A b \in active[c] : p < b.priority
           /\ GroupOf[LineOf(a.id, c)] \in asked.groups[c]
<1>1. IInv /\ [Next]_vars => [Step]_vars
  <2> SUFFICES ASSUME IInv, Next, NEW c \in Cpu, NEW a \in active'[c] \ active[c]
               PROVE  /\ asked.priority[LineOf(a.id, c)] < asked.mask[c]
                      /\ \A b \in active[c] : asked.priority[LineOf(a.id, c)] < b.priority
                      /\ GroupOf[LineOf(a.id, c)] \in asked.groups[c]
    BY DEF Step
  <2>1. PICK l \in Best(c) : LineOf(a.id, c) = l
    BY TakingStep
  <2>2. /\ priority[l] < pmr[c] /\ GroupOf[l] \in igrpen[c]
        /\ \A b \in active[c] : priority[l] < b.priority
    BY DEF Best, Eligible
  <2> QED
    BY <2>1, <2>2 DEF IInv, AskedHolds
<1> QED
  BY <1>1, Invariance, PTL DEF Spec, TakenAsAsked

(* An acknowledgement that clears the pending bit of a line takes it.      *)
LEMMA ClearingTakes ==
  ASSUME IInv, Next, NEW l \in latched, l \notin latched'
  PROVE  Takes(l)
<1>t. TypeOK
  BY DEF IInv
<1>1. PICK c \in Cpu, w \in World : GetAndAcknowledgeInterrupt(c, w)
  BY DEF Next, SendSgi, EnableGroup, SetPriorityMask, SetInterruptPriority, SetTrigger, Raise, Lower,
         EndInterrupt, config
<1>2. PICK k \in Best(c), id \in IntIds \cup Special :
         /\ id \notin Special => id = k[2] /\ WorldOf(GroupOf[k]) = w
         /\ Len(handling[c]) < MaxNesting
         /\ handling' = [handling EXCEPT ![c] = Append(@, [id |-> id, world |-> w])]
         /\ id \in Special => UNCHANGED <<latched, active, asked>>
         /\ id \notin Special =>
              /\ latched' = latched \ {k}
              /\ asked' = [asked EXCEPT !.sgis = @ \ {k}]
              /\ active' = [active EXCEPT ![c] = @ \cup {[id |-> id, priority |-> priority[k]]}]
         /\ UNCHANGED <<raised, edge, priority, pmr, igrpen>>
  BY <1>1, AcknowledgeStep
<1>3. id \notin Special /\ l = k /\ id = l[2]
  BY <1>2
<1>4. LineOf(l[2], c) = l /\ \A b \in active[c] : b.id # l[2]
  BY <1>3, ReachingLine DEF Best, Eligible
<1> DEFINE a == [id |-> id, priority |-> priority[k]]
<1>5. a \in active'[c] /\ a \notin active[c] /\ a.id = l[2]
  BY <1>t, <1>2, <1>3, <1>4 DEF TypeOK
<1> QED
  BY <1>4, <1>5 DEF Takes

(* An edge is not lost before a core takes it, and a level leaves nothing  *)
(* behind when it drops (gicv3.rs:272-295).                                *)
THEOREM Triggers == Spec => TriggerAsAsked
<1> DEFINE Step == \A l \in Used : l[2] \in Peripheral =>
       /\ l \in asked.edge /\ Pending(l) /\ ~Takes(l) => Pending(l)'
       /\ l \notin asked.edge /\ l \notin raised' => ~Pending(l)'
<1>1. IInv /\ IInv' /\ [Next]_vars => [Step]_vars
  <2> SUFFICES ASSUME IInv, IInv', Next, NEW l \in Used, l[2] \in Peripheral
               PROVE  /\ l \in asked.edge /\ Pending(l) /\ ~Takes(l) => Pending(l)'
                      /\ l \notin asked.edge /\ l \notin raised' => ~Pending(l)'
    BY DEF Step
  <2>1. ASSUME l \in asked.edge, Pending(l), ~Takes(l)
        PROVE  Pending(l)'
    <3>1. l \in latched
      BY <2>1 DEF Pending, IInv, AskedHolds
    <3> QED
      BY <2>1, <3>1, ClearingTakes DEF Pending
  <2>2. ASSUME l \notin asked.edge, l \notin raised'
        PROVE  ~Pending(l)'
    <3>1. l \notin edge /\ l \notin latched
      BY <2>2 DEF IInv, AskedHolds, LatchedAreEdges
    <3>2. l \notin latched'
      <4>1. CASE l \in edge'
        BY <3>1, <4>1 DEF Next, SendSgi, GetAndAcknowledgeInterrupt, EnableGroup, SetPriorityMask,
             SetInterruptPriority, SetTrigger, Raise, Lower, EndInterrupt, config
      <4>2. CASE l \notin edge'
        BY <4>2 DEF IInv, LatchedAreEdges
      <4> QED
        BY <4>1, <4>2
    <3> QED
      BY <2>2, <3>2 DEF Pending
  <2> QED
    BY <2>1, <2>2
<1> QED
  BY <1>1, Invariance, PTL DEF Spec, TriggerAsAsked
=============================================================================
