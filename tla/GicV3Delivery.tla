--------------------------- MODULE GicV3Delivery ---------------------------
(***************************************************************************)
(* Delivery of interrupts by a GICv3 with two security states, as the      *)
(* software of each core sees it through the driver: send_sgi,             *)
(* get_and_acknowledge_interrupt, end_interrupt, enable_group0,            *)
(* enable_group1, set_priority_mask, set_interrupt_priority, set_trigger.  *)
(*                                                                         *)
(* A core goes between three worlds: EL3 takes group 0, the Secure and the *)
(* Non-secure world below it their group 1.  Handlers nest across worlds.  *)
(* All but the last two calls are associated functions that touch only the *)
(* calling core's own system registers, so cores interleave freely and a   *)
(* step is a whole call.                                                   *)
(***************************************************************************)
EXTENDS GicV3Frames, SystemRegisters, Sequences, SequencesExt

CONSTANTS
  Arch,         \* the target of the build: aarch64 or aarch32
  Sgi,          \* the SGIs in use
  Peripheral,   \* the PPIs and SPIs in use
  Route,        \* the core each SPI is routed to
  GroupOf,      \* the group of every interrupt, as set_group left it
  AffinityOf,   \* the affinity of each core: its cluster and level 0
  Priority,     \* the priorities in use, 0 the highest
  Mask,         \* the priority masks in use
  Switched,     \* the groups whose enables software changes: a core and a group
  MaxNesting    \* bound on the answers a core works on at a time

Group == {"Group0", "Group1S", "Group1NS"}

Cluster == {AffinityOf[c].cluster : c \in Cpu}

ASSUME DeliveryAssumption ==
  /\ Arch \in {"aarch64", "aarch32"}
  /\ Sgi \subseteq {i \in IntIds : is_sgi(i)}
  /\ Peripheral \subseteq {i \in IntIds : ~is_sgi(i)}
  /\ Route \in [SpiId -> Cpu]
  /\ GroupOf \in [Line -> Group]
  /\ \A c \in Cpu : AffinityOf[c].aff0 \in 0 .. 255
  /\ Priority \subseteq Nat /\ 0 \in Priority
  /\ Mask \subseteq Nat
  /\ Switched \subseteq Cpu \X Group
  /\ MaxNesting \in Nat

LineOf(i, c) == <<FrameOf(i, c), i>>

(* The lines in use, and those of them that can reach core c.              *)
Used == {l \in Line : l[2] \in Sgi \cup Peripheral}
Reaching(c) == {l \in Used : l[1] = c \/ (l[1] = Gicd /\ Route[l[2]] = c)}

VARIABLES
  raised,      \* the lines their devices assert
  latched,     \* the lines whose pending bit is set
  edge,        \* the lines configured as edge triggered
  priority,    \* IPRIORITYR of each line
  pmr,         \* ICC_PMR_EL1 of each core
  igrpen,      \* the groups enabled in ICC_IGRPEN0_EL1 and both ICC_IGRPEN1_EL1
  active,      \* the interrupts active at each core, with the priority they run at
  handling,    \* the answers each core's software works on, newest last
  asked        \* history: the priorities, triggers, masks and groups last asked
               \* for, and the SGIs sent and not yet taken

config == <<edge, priority, pmr, igrpen, asked>>
vars == <<raised, latched, active, handling, config>>

World == {"EL3", "Secure", "NonSecure"}
Special == {SPECIAL_SECURE, SPECIAL_NONSECURE, SPECIAL_NMI}

TypeOK ==
  /\ raised \in SUBSET Used
  /\ latched \in SUBSET Used
  /\ edge \in SUBSET Used
  /\ priority \in [Used -> Priority]
  /\ pmr \in [Cpu -> Mask]
  /\ igrpen \in [Cpu -> SUBSET Group]
  /\ active \in [Cpu -> SUBSET [id : IntIds, priority : Priority]]
  /\ handling \in [Cpu -> Seq([id : IntIds \cup Special, world : World])]
  /\ \A c \in Cpu : Len(handling[c]) <= MaxNesting
  /\ asked \in [priority : [Used -> Priority], edge : SUBSET Used, mask : [Cpu -> Mask],
                groups : [Cpu -> SUBSET Group], sgis : SUBSET Used]

Init ==
  /\ raised = {} /\ latched = {} /\ edge = {}
  /\ priority = [l \in Used |-> 0]
  /\ \E m \in Mask : pmr = [c \in Cpu |-> m]
  /\ igrpen = [c \in Cpu |-> Group]
  /\ active = [c \in Cpu |-> {}]
  /\ handling = [c \in Cpu |-> <<>>]
  /\ asked = [priority |-> priority, edge |-> edge, mask |-> pmr,
              groups |-> igrpen, sgis |-> {}]

(* A level triggered interrupt is pending as long as its line is asserted. *)
Pending(l) == l \in latched \/ (l \in raised /\ l \notin edge)

(***************************************************************************)
(* send_sgi from Secure software: what it writes, to which register, and   *)
(* to which cores the hardware takes it.  The range selector stays zero,   *)
(* so the list stands for affinity 0 from 0 to 15.                         *)
(***************************************************************************)
SgiTarget ==
  {[kind |-> "All"]} \cup
  [kind : {"List"}, cluster : Cluster, list : SUBSET ({AffinityOf[c].aff0 : c \in Cpu} \cap 0 .. 15)]

SgiTargetGroup == {"Group0", "CurrentGroup1", "OtherGroup1"}

SgiValue_irm_swapped(target) ==       \* a slip: the routing mode upside down
  IF target.kind = "All" THEN [irm |-> FALSE, cluster |-> "none", list |-> {}]
  ELSE [irm |-> TRUE, cluster |-> target.cluster, list |-> target.list]

SgiValue(target) ==
  IF target.kind = "All" THEN [irm |-> TRUE, cluster |-> "none", list |-> {}]
  ELSE [irm |-> FALSE, cluster |-> target.cluster, list |-> target.list]

SgiRegister(group) ==
  Accessed(Arch, CASE group = "Group0"        -> "icc_sgi0r_el1"
                   [] group = "CurrentGroup1" -> "icc_sgi1r_el1"
                   [] group = "OtherGroup1"   -> "icc_asgi1r_el1")

Routed(me, value) ==
  IF value.irm THEN Cpu \ {me}
  ELSE {c \in Cpu : AffinityOf[c].cluster = value.cluster /\ AffinityOf[c].aff0 \in value.list}

Forwards(register) ==
  CASE register = "icc_sgi0r_el1"  -> "Group0"
    [] register = "icc_sgi1r_el1"  -> "Group1S"
    [] register = "icc_asgi1r_el1" -> "Group1NS"

(* The cores and the group the documentation of the targets speaks of.     *)
Meant(me, target) ==
  IF target.kind = "All" THEN Cpu \ {me}
  ELSE {c \in Cpu : AffinityOf[c].cluster = target.cluster /\ AffinityOf[c].aff0 \in target.list}

GroupMeant ==
  [Group0 |-> "Group0", CurrentGroup1 |-> "Group1S", OtherGroup1 |-> "Group1NS"]

SendSgi(me, i, target, group) ==
  /\ latched' = latched \cup
       {<<c, i>> : c \in {d \in Routed(me, SgiValue(target)) :
                            GroupOf[<<d, i>>] = Forwards(SgiRegister(group))}}
  /\ asked' = [asked EXCEPT !.sgis = @ \cup
       {<<c, i>> : c \in {d \in Meant(me, target) : GroupOf[<<d, i>>] = GroupMeant[group]}}]
  /\ UNCHANGED <<raised, active, handling, edge, priority, pmr, igrpen>>

(* A device asserts and deasserts its line.                                *)
Raise(l) ==
  /\ l[2] \in Peripheral /\ l \notin raised
  /\ raised' = raised \cup {l}
  /\ latched' = IF l \in edge THEN latched \cup {l} ELSE latched
  /\ UNCHANGED <<active, handling, config>>

Lower(l) ==
  /\ l \in raised
  /\ raised' = raised \ {l}
  /\ UNCHANGED <<latched, active, handling, config>>

(***************************************************************************)
(* get_and_acknowledge_interrupt.  The CPU interface looks for a pending   *)
(* interrupt of the highest priority in an enabled group, above the mask   *)
(* and above all that are active; a world that is not meant to take it     *)
(* gets a special answer.                                                  *)
(***************************************************************************)
Eligible(c) ==
  {l \in Reaching(c) :
     /\ Pending(l)
     /\ GroupOf[l] \in igrpen[c]
     /\ priority[l] < pmr[c]
     /\ \A a \in active[c] : a.id # l[2] /\ priority[l] < a.priority}

Best(c) == {l \in Eligible(c) : \A k \in Eligible(c) : priority[l] <= priority[k]}

WorldOf(group) ==
  CASE group = "Group0" -> "EL3" [] group = "Group1S" -> "Secure" [] group = "Group1NS" -> "NonSecure"

(* What a read answers with line l the best.  EL3 runs with SCR_EL3.NS     *)
(* clear, so its ICC_IAR1_EL1 is the Secure one.                           *)
Iar(register, w, l) ==
  LET owner == WorldOf(GroupOf[l])
  IN  CASE register = "icc_iar0_el1" /\ w = "EL3" ->
             [EL3 |-> l[2], Secure |-> SPECIAL_SECURE, NonSecure |-> SPECIAL_NONSECURE][owner]
        [] register = "icc_iar1_el1" /\ (owner = "NonSecure") = (w = "NonSecure") /\ owner # "EL3" -> l[2]
        [] OTHER -> SPECIAL_NONE

(* Each world asks for its own InterruptGroup.                             *)
InterruptGroupOf(w) == IF w = "EL3" THEN "Group0" ELSE "Group1"
IarOf_always_group1(group) == "icc_iar1_el1"     \* slips: that of group 1 for both
EoirOf_always_group1(group) == "icc_eoir1_el1"
IarOf(group) == Accessed(Arch, IF group = "Group0" THEN "icc_iar0_el1" ELSE "icc_iar1_el1")
EoirOf(group) == Accessed(Arch, IF group = "Group0" THEN "icc_eoir0_el1" ELSE "icc_eoir1_el1")

(* A slip of the next action: SPECIAL_NONE is returned like an interrupt.   *)
GetAndAcknowledgeInterrupt_none(c, w) ==
  /\ Len(handling[c]) < MaxNesting
  /\ Best(c) = {}
  /\ handling' = [handling EXCEPT ![c] = Append(@, [id |-> SPECIAL_NONE, world |-> w])]
  /\ UNCHANGED <<raised, latched, active, config>>

(* Only SPECIAL_NONE is None; every other answer the software works on and *)
(* ends, the special ones too.  A None changes nothing.                    *)
GetAndAcknowledgeInterrupt(c, w) ==
  /\ Len(handling[c]) < MaxNesting
  /\ \E l \in Best(c) :
       LET id == Iar(IarOf(InterruptGroupOf(w)), w, l)
       IN  /\ id # SPECIAL_NONE
           /\ handling' = [handling EXCEPT ![c] = Append(@, [id |-> id, world |-> w])]
           /\ IF id \in Special THEN UNCHANGED <<latched, active, asked>>
              ELSE /\ latched' = latched \ {l}
                   /\ asked' = [asked EXCEPT !.sgis = @ \ {l}]
                   /\ active' = [active EXCEPT ![c] =
                                   @ \cup {[id |-> id, priority |-> priority[l]]}]
  /\ UNCHANGED <<raised, edge, priority, pmr, igrpen>>

(* end_interrupt, in the world that took the newest interrupt.  With       *)
(* ICC_CTLR_EL1 as init_cpu leaves it the write drops the priority and     *)
(* deactivates; a special identifier is ignored, and so is the register of *)
(* the other group.                                                        *)
Ended(c, id, register, w) ==
  IF register = (IF w = "EL3" THEN "icc_eoir0_el1" ELSE "icc_eoir1_el1")
  THEN {a \in active[c] : a.id # id} ELSE active[c]

EndInterrupt(c) ==
  /\ handling[c] # <<>>
  /\ LET e == Last(handling[c])
     IN  active' = [active EXCEPT ![c] =
                      Ended(c, e.id, EoirOf(InterruptGroupOf(e.world)), e.world)]
  /\ handling' = [handling EXCEPT ![c] = Front(@)]
  /\ UNCHANGED <<raised, latched, config>>

(***************************************************************************)
(* Groups, priorities and triggers.                                        *)
(***************************************************************************)

(* The group that InterruptGroup means in world w.                         *)
GroupIn(w, group) ==
  IF group = "Group0" THEN "Group0" ELSE IF w = "NonSecure" THEN "Group1NS" ELSE "Group1S"

(* The group a register enables when world w writes it.                    *)
EnabledBy(register, w) ==
  GroupIn(w, IF register = "icc_igrpen0_el1" THEN "Group0" ELSE "Group1")

IgrpenOf(group) ==
  Accessed(Arch, IF group = "Group0" THEN "icc_igrpen0_el1" ELSE "icc_igrpen1_el1")

(* enable_group0 and enable_group1, each world for its own group.          *)
EnableGroup(c, w, enable) ==
  LET group == InterruptGroupOf(w)
      written == {EnabledBy(IgrpenOf(group), w)}
      meant == {GroupIn(w, group)}
  IN  /\ <<c, GroupIn(w, group)>> \in Switched
      /\ igrpen' = [igrpen EXCEPT ![c] = IF enable THEN @ \cup written ELSE @ \ written]
      /\ asked' = [asked EXCEPT !.groups[c] = IF enable THEN @ \cup meant ELSE @ \ meant]
      /\ UNCHANGED <<raised, latched, active, handling, edge, priority, pmr>>

SetPriorityMask_one_higher(c, m) ==   \* a slip: the mask itself is let through
  /\ pmr' = [pmr EXCEPT ![c] = IF m + 1 \in Mask THEN m + 1 ELSE m]
  /\ asked' = [asked EXCEPT !.mask[c] = m]
  /\ UNCHANGED <<raised, latched, active, handling, edge, priority, igrpen>>

SetPriorityMask(c, m) ==
  /\ pmr' = [pmr EXCEPT ![c] = m]
  /\ asked' = [asked EXCEPT !.mask[c] = m]
  /\ UNCHANGED <<raised, latched, active, handling, edge, priority, igrpen>>

SetInterruptPriority(i, c, p) ==
  /\ priority' = [priority EXCEPT ![LineOf(i, c)] = p]
  /\ asked' = [asked EXCEPT !.priority[LineOf(i, c)] = p]
  /\ UNCHANGED <<raised, latched, active, handling, edge, pmr, igrpen>>

(* The architecture leaves open what becomes of an interrupt whose trigger *)
(* changes while it is pending or active: a client changes it while quiet. *)
Quiet(l) ==
  /\ l \notin raised \cup latched
  /\ \A c \in Cpu : \A a \in active[c] : LineOf(a.id, c) # l

SetTrigger_inverted(i, c, isEdge) ==
  LET l == LineOf(i, c)
  IN  /\ Quiet(l)
      /\ edge' = IF isEdge THEN edge \ {l} ELSE edge \cup {l}
      /\ asked' = [asked EXCEPT !.edge = IF isEdge THEN @ \cup {l} ELSE @ \ {l}]
      /\ UNCHANGED <<raised, latched, active, handling, priority, pmr, igrpen>>

SetTrigger(i, c, isEdge) ==
  LET l == LineOf(i, c)
  IN  /\ Quiet(l)
      /\ edge' = IF isEdge THEN edge \cup {l} ELSE edge \ {l}
      /\ asked' = [asked EXCEPT !.edge = IF isEdge THEN @ \cup {l} ELSE @ \ {l}]
      /\ UNCHANGED <<raised, latched, active, handling, priority, pmr, igrpen>>

Next ==
  \/ \E c \in Cpu :
       \/ \E i \in Sgi, target \in SgiTarget, group \in SgiTargetGroup :
            SendSgi(c, i, target, group)
       \/ \E w \in World :
            GetAndAcknowledgeInterrupt(c, w) \/ \E enable \in BOOLEAN : EnableGroup(c, w, enable)
       \/ EndInterrupt(c)
       \/ \E m \in Mask : SetPriorityMask(c, m)
       \/ \E i \in Sgi \cup Peripheral, p \in Priority : SetInterruptPriority(i, c, p)
       \/ \E i \in Peripheral, isEdge \in BOOLEAN : SetTrigger(i, c, isEdge)
  \/ \E l \in Used : Raise(l) \/ Lower(l)

Spec == Init /\ [][Next]_vars
-----------------------------------------------------------------------------
(***************************************************************************)
(* Properties.                                                             *)
(***************************************************************************)
Real(c) == {e \in ToSet(handling[c]) : e.id \notin Special}

(* An interrupt is active at a core exactly while its software works on    *)
(* it, whatever special answers it gets and ends in between, and whatever  *)
(* worlds the handlers belong to.                                          *)
ActiveIsHandled == \A c \in Cpu : {a.id : a \in active[c]} = {e.id : e \in Real(c)}

(* An interrupt is taken by the world its group belongs to.                *)
WorldsOwnGroups ==
  \A c \in Cpu : \A e \in Real(c) : WorldOf(GroupOf[LineOf(e.id, c)]) = e.world

(* "Only interrupts with a higher priority (numerically lower) will be     *)
(* signalled" (gicv3.rs:245) than the mask asked for, and a handler is     *)
(* interrupted only by a higher priority, by the priorities last asked for *)
(* at the time, and never one of a group last asked to be disabled there.  *)
TakenAsAsked ==
  [][\A c \in Cpu : \A a \in active'[c] \ active[c] :
       LET p == asked.priority[LineOf(a.id, c)]
       IN  /\ p < asked.mask[c]
           /\ \A b \in active[c] : p < b.priority
           /\ GroupOf[LineOf(a.id, c)] \in asked.groups[c]]_vars

(* The step takes the interrupt of line l to a core.                       *)
Takes(l) == \E c \in Cpu : \E a \in active'[c] \ active[c] : LineOf(a.id, c) = l

(* An interrupt asked to be edge triggered stays pending until a core      *)
(* takes it, although its line drops; one asked to be level triggered does *)
(* not outlive its line.                                                   *)
TriggerAsAsked ==
  [][\A l \in Used : l[2] \in Peripheral =>
       /\ l \in asked.edge /\ Pending(l) /\ ~Takes(l) => Pending(l)'
       /\ l \notin asked.edge /\ l \notin raised' => ~Pending(l)']_vars

(* An SGI is pending at exactly the cores it was meant for that have not   *)
(* taken it since: with SgiTarget::All "all CPU cores except the current   *)
(* one" (gicv3.rs:636), with a list the cores "matching the given          *)
(* affinities and list", and among them those where the SGI is in the      *)
(* group it was sent for.                                                  *)
SgisArrive == asked.sgis = {l \in latched : l[2] \in Sgi}
=============================================================================
