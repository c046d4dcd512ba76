--------------------------- MODULE GicV2Delivery ---------------------------
(***************************************************************************)
(* Delivery of interrupts by a GICv2, as the software of each core sees it *)
(* through the driver, composed with the configuration calls:              *)
(* GicV2::send_sgi, get_and_acknowledge_interrupt and end_interrupt.       *)
(*                                                                         *)
(* The CPU interface identifies an interrupt by the number read from       *)
(* GICC_AIAR and expects the same number in GICC_AEOIR.  For an SGI it     *)
(* carries the sending core in bits 12:10 above the identifier, and SGIs   *)
(* from different cores are pending separately.                            *)
(*                                                                         *)
(* Every call of the driver takes &mut self, so only devices act while a   *)
(* call is in its loop.  Group 1 is taken to be forwarded and signalled on *)
(* a core once setup has written GICD_CTLR bit 1 and GICC_CTLR bit 0 there.*)
(***************************************************************************)
EXTENDS GicV2Config, Sequences, SequencesExt

CONSTANTS
  Sgi,           \* the SGIs in use
  Peripheral,    \* the PPIs and SPIs in use
  Target,        \* the cores GICD_ITARGETSR routes the SPIs to
  Secure,        \* whether the driver is used in Secure state
  Masking,       \* the cores whose software sets its priority mask
  MaxNesting,    \* bound on the interrupts a core handles at a time
  LoopDepth      \* bound on the interrupts a core handles during a loop

ASSUME DeliveryAssumption ==
  /\ CpuCount \in 1 .. 8
  /\ SPECIAL_START < 1024     \* identifiers fit below the core in AIAR
  /\ Sgi \subseteq Implemented \cap (0 .. PPI_START - 1)
  /\ Peripheral \subseteq Implemented \cap (PPI_START .. SPECIAL_START - 1)
  /\ Target \subseteq Cpu
  /\ Secure \in BOOLEAN
  /\ Masking \subseteq Cpu
  /\ MaxNesting \in Nat /\ LoopDepth \in Nat

(* The number in AIAR and AEOIR for identifier i sent by core c.           *)
Aiar(i, c) == i + 1024 * c
IdOf(v) == v % 1024

SgiNumber == {Aiar(i, c) : i \in Sgi, c \in Cpu}

(* The registers of core c that configure the interrupt with number v.     *)
LineOf(v, c) == <<BankOf(IdOf(v), c), IdOf(v)>>

(* The lines of the devices.                                               *)
Wire == {l \in Line : l[2] \in Peripheral}

VARIABLES
  sgis,        \* the SGIs pending at each CPU interface, as AIAR numbers
  raised,      \* the lines the devices assert
  latched,     \* the edges that are pending
  active,      \* the numbers active at each CPU interface
  handling     \* the IntIds the software of each core has yet to end, newest last

signals == <<sgis, raised, latched>>
vars == <<configVars, signals, active, handling>>

TypeOK ==
  /\ ConfigTypeOK
  /\ sgis \in [Cpu -> SUBSET SgiNumber]
  /\ raised \in SUBSET Wire
  /\ latched \in SUBSET Wire
  /\ active \in [Cpu -> SUBSET (SgiNumber \cup Peripheral)]
  /\ handling \in [Cpu -> Seq(SgiNumber \cup Peripheral)]
  /\ \A c \in Cpu : Len(handling[c]) <= MaxNesting

Init ==
  /\ ConfigInit
  /\ sgis = [c \in Cpu |-> {}]
  /\ raised = {} /\ latched = {}
  /\ active = [c \in Cpu |-> {}]
  /\ handling = [c \in Cpu |-> <<>>]

(***************************************************************************)
(* send_sgi.  GICD_SGIR has a target list, a filter that says whether to   *)
(* use it, and NSATT, which says in which group an SGI must be at a core   *)
(* to be forwarded there.  A write in Non-secure state counts as NSATT set.*)
(***************************************************************************)
SgiTargetListFilter == {"CPUTargetList", "ForwardOthersOnly", "ForwardSelfOnly"}

All == [kind |-> "All"]
SgiTarget == {All} \cup
  [kind : {"List"}, target_list_filter : SgiTargetListFilter, target_list : SUBSET Cpu]

(* The inputs of a run leave out lists that their filter ignores.          *)
SgiInput == {target \in SgiTarget :
  target = All \/ target.target_list_filter = "CPUTargetList" \/ target.target_list = {}}

(* A slip of the next operator: NSATT is forgotten.                        *)
SgiValue_without_nsatt(target) ==
  IF target = All THEN [filter |-> "CPUTargetList", list |-> Cpu, nsatt |-> FALSE]
  ELSE [filter |-> target.target_list_filter, list |-> target.target_list, nsatt |-> FALSE]

(* SgiTarget::All is written as the list of all cores.                     *)
SgiValue(target) ==
  IF target = All THEN [filter |-> "CPUTargetList", list |-> Cpu, nsatt |-> FALSE]
  ELSE [filter |-> target.target_list_filter, list |-> target.target_list, nsatt |-> TRUE]

(* The cores to which GICD_SGIR forwards what core me writes.              *)
Listed(me, filter, list) ==
  CASE filter = "CPUTargetList"     -> list
    [] filter = "ForwardOthersOnly" -> Cpu \ {me}
    [] filter = "ForwardSelfOnly"   -> {me}

Forwarded(me, i, v) ==
  {c \in Listed(me, v.filter, v.list) : (LineOf(i, c) \in igroup1) <=> (v.nsatt \/ ~Secure)}

SendSgi(me, i, target) ==
  /\ dcall = Idle
  /\ LET to == Forwarded(me, i, SgiValue(target))
     IN  sgis' = [c \in Cpu |-> IF c \in to THEN sgis[c] \cup {Aiar(i, me)} ELSE sgis[c]]
  /\ UNCHANGED <<configVars, raised, latched, active, handling>>

(* A device asserts its line, which the distributor latches when the       *)
(* interrupt is edge triggered, and deasserts it.                          *)
Raise(l) ==
  /\ l \notin raised
  /\ raised' = raised \cup {l}
  /\ latched' = IF l \in edge THEN latched \cup {l} ELSE latched
  /\ UNCHANGED <<configVars, sgis, active, handling>>

Lower(l) ==
  /\ l \in raised
  /\ raised' = raised \ {l}
  /\ UNCHANGED <<configVars, sgis, latched, active, handling>>

(***************************************************************************)
(* get_and_acknowledge_interrupt.  The interface chooses by priority among *)
(* the interrupts it may signal; with nothing to choose it answers         *)
(* SPECIAL_NONE and the call returns None.                                 *)
(***************************************************************************)
PendingLines == latched \cup (raised \ edge)

Pending(c) ==
  sgis[c] \cup {i \in Peripheral : LineOf(i, c) \in PendingLines
                                   /\ (i >= SPI_START => c \in Target)}

(* The lines that are active, at any core.                                 *)
ActiveLines == UNION {{LineOf(v, c) : v \in active[c]} : c \in Cpu}

Signalled(c) ==
  {v \in Pending(c) :
     /\ c \in started
     /\ LineOf(v, c) \in (enabled \cap igroup1) \ ActiveLines
     /\ priority[LineOf(v, c)] < pmr[c]}

(* A slip of the next action: the IntId without the core it came from.     *)
GetAndAcknowledgeInterrupt_masked(c) ==
  /\ dcall = Idle
  /\ Len(handling[c]) < MaxNesting
  /\ \E v \in Signalled(c) :
       /\ sgis' = [sgis EXCEPT ![c] = @ \ {v}]
       /\ latched' = latched \ {LineOf(v, c)}
       /\ active' = [active EXCEPT ![c] = @ \cup {v}]
       /\ handling' = [handling EXCEPT ![c] = Append(@, IdOf(v))]
  /\ UNCHANGED <<configVars, raised>>

(* Another: SPECIAL_NONE is returned like an interrupt.                    *)
GetAndAcknowledgeInterrupt_none(c) ==
  /\ dcall = Idle
  /\ Len(handling[c]) < MaxNesting
  /\ Signalled(c) = {}
  /\ handling' = [handling EXCEPT ![c] = Append(@, SPECIAL_START + 3)]
  /\ UNCHANGED <<configVars, signals, active>>

GetAndAcknowledgeInterrupt(c) ==
  /\ dcall = Idle
  /\ Len(handling[c]) < MaxNesting
  /\ \E v \in Signalled(c) :
       /\ sgis' = [sgis EXCEPT ![c] = @ \ {v}]
       /\ latched' = latched \ {LineOf(v, c)}
       /\ active' = [active EXCEPT ![c] = @ \cup {v}]
       /\ handling' = [handling EXCEPT ![c] = Append(@, v)]
  /\ UNCHANGED <<configVars, raised>>

(* end_interrupt, for the newest interrupt first as the priorities demand. *)
EndInterrupt(c) ==
  /\ dcall = Idle
  /\ handling[c] # <<>>
  /\ active' = [active EXCEPT ![c] = @ \ {Last(handling[c])}]
  /\ handling' = [handling EXCEPT ![c] = Front(@)]
  /\ UNCHANGED <<configVars, signals>>

(* The configuration calls.  The trigger of an interrupt is changed while  *)
(* it is disabled and its device quiet, as the architecture asks.          *)
Configure(me) ==
  /\ \/ \E i \in Implemented : EnableInterrupt(i, me) \/ DisableInterrupt(i, me)
     \/ \E i \in Implemented, p \in Priority : SetInterruptPriority(i, me, p)
     \/ \E i \in Implemented, isEdge \in BOOLEAN :
          /\ LineOf(i, me) \notin enabled \cup raised \cup latched \cup ActiveLines
          /\ SetTrigger(i, me, isEdge)
     \/ me \in Masking /\ \E m \in Mask : SetPriorityMask(me, m)
  /\ UNCHANGED <<signals, active, handling>>

(* The calls with a loop, and their steps.                                 *)
ConfigureAll ==
  /\ LoopStep \/ (LoopCall /\ \A c \in Cpu : Len(handling[c]) <= LoopDepth)
  /\ UNCHANGED <<signals, active, handling>>

Next ==
  \/ \E c \in Cpu :
       \/ \E i \in Sgi, target \in SgiInput : SendSgi(c, i, target)
       \/ GetAndAcknowledgeInterrupt(c)
       \/ EndInterrupt(c)
       \/ Configure(c)
  \/ ConfigureAll
  \/ \E l \in Wire : Raise(l) \/ Lower(l)

Spec == Init /\ [][Next]_vars
-----------------------------------------------------------------------------
(***************************************************************************)
(* Properties.                                                             *)
(***************************************************************************)

(* The interface and the software agree: an interrupt is active exactly    *)
(* from its acknowledgement to its end, so none stays active and blocks    *)
(* its next occurrence after the software has ended it.                    *)
ActiveIsHandled == \A c \in Cpu : active[c] = ToSet(handling[c])

(* The step takes the interrupt of line l to a core.                       *)
Takes(l) == \E c \in Cpu : \E v \in active'[c] \ active[c] : LineOf(v, c) = l

(* An interrupt asked to be edge triggered stays pending until a core      *)
(* takes it, although its line drops while it is disabled, masked or       *)
(* active and whatever triggers, enables and groups are set meanwhile; one *)
(* asked to be level triggered does not outlive its line.                  *)
NoEdgeLost ==
  [][\A l \in Wire :
       /\ l \in edgeAsked /\ l \in PendingLines /\ ~Takes(l) => l \in PendingLines'
       /\ l \notin edgeAsked /\ l \notin raised' => l \notin PendingLines']_vars

(* SgiTarget::List, in Secure and in Non-secure state: the SGI goes to     *)
(* exactly the cores meant, of those that have been set up.                *)
ListsReach ==
  \A me \in Cpu, i \in Sgi, target \in SgiTarget \ {All} :
    Forwarded(me, i, SgiValue(target)) \cap started
      = Listed(me, target.target_list_filter, target.target_list) \cap started

(* SgiTarget::All "is routed to all CPU cores except the current one"      *)
(* (gicv2.rs:180), of those that have been set up.                         *)
AllReachesOthers ==
  \A me \in Cpu, i \in Sgi :
    Forwarded(me, i, SgiValue(All)) \cap started = started \ {me}
=============================================================================
