---------------------------- MODULE GicV2Config ----------------------------
(***************************************************************************)
(* The distributor configuration of a GICv2 and the driver calls that      *)
(* write it: GicV2::setup, enable_interrupt, enable_all_interrupts,        *)
(* set_priority_mask, set_interrupt_priority and set_trigger.              *)
(*                                                                         *)
(* The registers of the private interrupts are banked: a core that         *)
(* accesses them sees its own, whatever core the driver was used on last.  *)
(* Calls take &mut self, one at a time; a step is one register write with  *)
(* the read before it, and setup ends with its two writes to the CPU       *)
(* interface, of GICC_CTLR and GICC_PMR, in one: the interface signals     *)
(* what it will, but nothing is acknowledged before the driver is free.    *)
(***************************************************************************)
EXTENDS IntId

CONSTANTS
  CpuCount,      \* the number of cores
  Words,         \* the words of a register file with one bit per interrupt
  PrioPerWord,   \* the priorities in one word of IPRIORITYR
  TrigPerWord,   \* the triggers in one word of ICFGR
  Implemented,   \* the identifiers of the interrupts that exist
  Priority,      \* the priorities in use
  Mask           \* the priority masks in use

Ids == 0 .. SPI_START * Words - 1

ASSUME ConfigAssumption ==
  /\ CpuCount \in Nat \ {0}
  /\ Words \in Nat \ {0}
  /\ PrioPerWord \in Nat \ {0}
  /\ TrigPerWord \in Nat \ {0}
  /\ Implemented \subseteq Ids
  /\ Priority \subseteq 0 .. 255 /\ 0 \in Priority
  /\ Mask \subseteq 0 .. 255 /\ {0, 255} \subseteq Mask

Cpu == 0 .. CpuCount - 1

(* The bank that core me reaches for identifier i.                         *)
Shared == CpuCount
Bank == Cpu \cup {Shared}
BankOf(i, me) == IF i < SPI_START THEN me ELSE Shared

Line == {l \in Bank \X Ids : (l[1] = Shared) <=> (l[2] >= SPI_START)}

(* An interrupt that does not exist has no bit to set.                     *)
Real == {l \in Line : l[2] \in Implemented}

VARIABLES
  enabled,      \* the interrupts whose enable bit is set
  igroup1,      \* the interrupts whose group bit is set
  edge,         \* the interrupts configured as edge triggered
  priority,     \* the priority of every interrupt
  pmr,          \* the priority mask in GICC_PMR of every core
  started,      \* the cores on which setup has written GICC_CTLR
  dcall,        \* the call that holds the driver and where it is, or Idle
  asked,        \* history: the existing interrupts last asked to be enabled
  edgeAsked,    \* history: the interrupts last asked to be edge triggered
  prioAsked     \* history: the priority last asked for, of every interrupt

configVars ==
  <<enabled, igroup1, edge, priority, pmr, started, dcall, asked, edgeAsked, prioAsked>>

Idle == [op |-> "idle"]

Calls == [op : {"enable_all", "disable_all", "setup"}, me : Cpu, word : 0 .. Words]

ConfigTypeOK ==
  /\ enabled \in SUBSET Real
  /\ igroup1 \in SUBSET Real
  /\ edge \in SUBSET Real
  /\ priority \in [Line -> Priority]
  /\ pmr \in [Cpu -> Mask]
  /\ started \in SUBSET Cpu
  /\ dcall \in {Idle} \cup Calls
  /\ asked \in SUBSET Real
  /\ edgeAsked \in SUBSET Real
  /\ prioAsked \in [Line -> Priority]

ConfigInit ==
  /\ enabled = {} /\ igroup1 = {} /\ edge = {}
  /\ priority = [l \in Line |-> 0]
  /\ pmr = [c \in Cpu |-> 0]
  /\ started = {}
  /\ dcall = Idle
  /\ asked = {} /\ edgeAsked = {}
  /\ prioAsked = priority

(* enable_interrupt writes one bit, which changes no other, and reads the  *)
(* word back: it answers Err when the bit has not stuck, and the caller    *)
(* knows that the interrupt is not enabled.                                *)
EnableInterrupt(i, me) ==
  LET l == <<BankOf(i, me), i>>
      stuck == enabled \cup ({l} \cap Real)
  IN  /\ dcall = Idle
      /\ enabled' = stuck
      /\ asked' = IF l \in stuck THEN asked \cup {l} ELSE asked
      /\ UNCHANGED <<igroup1, edge, priority, pmr, started, dcall, edgeAsked, prioAsked>>

DisableInterrupt(i, me) ==
  LET l == <<BankOf(i, me), i>>
  IN  /\ dcall = Idle
      /\ enabled' = enabled \ {l}
      /\ asked' = asked \ {l}
      /\ UNCHANGED <<igroup1, edge, priority, pmr, started, dcall, edgeAsked, prioAsked>>

(* What a write of all ones to word k reaches from core me.                *)
WordLines(k, me) == {l \in Real : l[2] \div SPI_START = k /\ l[1] = BankOf(l[2], me)}

(* What enable_all_interrupts asks for: the private interrupts of the core *)
(* it runs on, and the shared ones.                                        *)
ReachOf(me) == {l \in Real : l[1] \in {me, Shared}}

EnableAll(me, enable) ==
  /\ dcall = Idle
  /\ dcall' = [op |-> IF enable THEN "enable_all" ELSE "disable_all", me |-> me, word |-> 0]
  /\ asked' = IF enable THEN asked \cup ReachOf(me) ELSE asked \ ReachOf(me)
  /\ UNCHANGED <<enabled, igroup1, edge, priority, pmr, started, edgeAsked, prioAsked>>

(* A slip of the action after the next: one word too few.                  *)
EnableAllReturn_early ==
  /\ dcall.op \in {"enable_all", "disable_all"}
  /\ dcall.word = Words - 1
  /\ dcall' = Idle
  /\ UNCHANGED <<enabled, igroup1, edge, priority, pmr, started, asked, edgeAsked, prioAsked>>

EnableAllWord ==
  /\ dcall.op \in {"enable_all", "disable_all"}
  /\ dcall.word < Words
  /\ LET bits == WordLines(dcall.word, dcall.me)
     IN  enabled' = IF dcall.op = "enable_all" THEN enabled \cup bits ELSE enabled \ bits
  /\ dcall' = [dcall EXCEPT !.word = @ + 1]
  /\ UNCHANGED <<igroup1, edge, priority, pmr, started, asked, edgeAsked, prioAsked>>

EnableAllReturn ==
  /\ dcall.op \in {"enable_all", "disable_all"}
  /\ dcall.word = Words
  /\ dcall' = Idle
  /\ UNCHANGED <<enabled, igroup1, edge, priority, pmr, started, asked, edgeAsked, prioAsked>>

(* setup: group 1 for every interrupt in reach, then the CPU interface.    *)
Setup(me) ==
  /\ dcall = Idle
  /\ dcall' = [op |-> "setup", me |-> me, word |-> 0]
  /\ UNCHANGED <<enabled, igroup1, edge, priority, pmr, started, asked, edgeAsked, prioAsked>>

SetupWord ==
  /\ dcall.op = "setup"
  /\ dcall.word < Words
  /\ igroup1' = igroup1 \cup WordLines(dcall.word, dcall.me)
  /\ dcall' = [dcall EXCEPT !.word = @ + 1]
  /\ UNCHANGED <<enabled, edge, priority, pmr, started, asked, edgeAsked, prioAsked>>

(* A slip of the next action: one word too few.                            *)
SetupReturn_early ==
  /\ dcall.op = "setup"
  /\ dcall.word = Words - 1
  /\ pmr' = [pmr EXCEPT ![dcall.me] = 255]
  /\ started' = started \cup {dcall.me}
  /\ dcall' = Idle
  /\ UNCHANGED <<enabled, igroup1, edge, priority, asked, edgeAsked, prioAsked>>

SetupReturn ==
  /\ dcall.op = "setup"
  /\ dcall.word = Words
  /\ pmr' = [pmr EXCEPT ![dcall.me] = 255]
  /\ started' = started \cup {dcall.me}
  /\ dcall' = Idle
  /\ UNCHANGED <<enabled, igroup1, edge, priority, asked, edgeAsked, prioAsked>>

(* set_interrupt_priority writes the whole word that holds the priority.   *)
SetInterruptPriority(i, me, p) ==
  LET b == BankOf(i, me)
  IN  /\ dcall = Idle
      /\ priority' = [l \in Line |->
           IF l[1] = b /\ l[2] \div PrioPerWord = i \div PrioPerWord
           THEN (IF l[2] = i THEN p ELSE 0)
           ELSE priority[l]]
      /\ prioAsked' = [prioAsked EXCEPT ![<<b, i>>] = p]
      /\ UNCHANGED <<enabled, igroup1, edge, pmr, started, dcall, asked, edgeAsked>>

(* The interrupts whose trigger can be chosen: an SGI is always an edge.   *)
Configurable == {l \in Real : l[2] >= PPI_START}

(* The interrupts whose triggers are in one word with line l.              *)
TriggerWord(l) ==
  {k \in Configurable : k[1] = l[1] /\ k[2] \div TrigPerWord = l[2] \div TrigPerWord}

(* A slip of the next action: the word is written without being read.      *)
SetTrigger_unread(i, me, isEdge) ==
  LET l == <<BankOf(i, me), i>>
  IN  /\ dcall = Idle
      /\ edge' = (edge \ TriggerWord(l)) \cup (IF isEdge THEN {l} \cap Configurable ELSE {})
      /\ edgeAsked' = IF isEdge THEN edgeAsked \cup ({l} \cap Configurable) ELSE edgeAsked \ {l}
      /\ UNCHANGED <<enabled, igroup1, priority, pmr, started, dcall, asked, prioAsked>>

(* Another: the lower bit of the pair is changed, which is reserved.       *)
SetTrigger_reserved_bit(i, me, isEdge) ==
  LET l == <<BankOf(i, me), i>>
  IN  /\ dcall = Idle
      /\ edgeAsked' = IF isEdge THEN edgeAsked \cup ({l} \cap Configurable) ELSE edgeAsked \ {l}
      /\ UNCHANGED <<enabled, igroup1, edge, priority, pmr, started, dcall, asked, prioAsked>>

(* set_trigger reads the word, changes the bit and writes the word.        *)
SetTrigger(i, me, isEdge) ==
  LET l == <<BankOf(i, me), i>>
      bit == {l} \cap Configurable
      word == edge \cap TriggerWord(l)
  IN  /\ dcall = Idle
      /\ edge' = (edge \ TriggerWord(l)) \cup (IF isEdge THEN word \cup bit ELSE word \ bit)
      /\ edgeAsked' = IF isEdge THEN edgeAsked \cup bit ELSE edgeAsked \ bit
      /\ UNCHANGED <<enabled, igroup1, priority, pmr, started, dcall, asked, prioAsked>>

(* set_priority_mask, for the core it runs on.                             *)
SetPriorityMask(me, m) ==
  /\ dcall = Idle
  /\ pmr' = [pmr EXCEPT ![me] = m]
  /\ UNCHANGED <<enabled, igroup1, edge, priority, started, dcall, asked, edgeAsked, prioAsked>>

(* The steps of the calls that loop over the words.                        *)
LoopStep == EnableAllWord \/ EnableAllReturn \/ SetupWord \/ SetupReturn

LoopCall == \E me \in Cpu : Setup(me) \/ \E enable \in BOOLEAN : EnableAll(me, enable)

ConfigNext ==
  \/ \E i \in Ids, me \in Cpu :
       \/ EnableInterrupt(i, me)
       \/ DisableInterrupt(i, me)
       \/ \E p \in Priority : SetInterruptPriority(i, me, p)
       \/ \E isEdge \in BOOLEAN : SetTrigger(i, me, isEdge)
  \/ \E me \in Cpu, m \in Mask : SetPriorityMask(me, m)
  \/ LoopCall
  \/ LoopStep

ConfigSpec == ConfigInit /\ [][ConfigNext]_configVars
-----------------------------------------------------------------------------
(***************************************************************************)
(* Properties.                                                             *)
(***************************************************************************)

(* Outside enable_all_interrupts exactly the existing interrupts are       *)
(* enabled that were last asked to be, those of other cores untouched.     *)
EnabledAsAsked == dcall.op \notin {"enable_all", "disable_all"} => enabled = asked

(* When setup has returned on a core, every interrupt that core can get is *)
(* in group 1, the group its interface signals.                            *)
SetupCovers == \A me \in started : ReachOf(me) \subseteq igroup1

(* Every interrupt has the trigger last asked for it: set_trigger changes  *)
(* no other interrupt of the word it rewrites.                             *)
TriggerAsAsked == edge = edgeAsked

(* set_interrupt_priority "Sets the priority of the interrupt with the     *)
(* given ID" (gicv2.rs:105), so every interrupt has the priority last      *)
(* asked for it.                                                           *)
PriorityAsAsked == priority = prioAsked
=============================================================================
