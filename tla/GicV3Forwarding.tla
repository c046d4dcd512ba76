-------------------------- MODULE GicV3Forwarding --------------------------
(***************************************************************************)
(* Which interrupts a GICv3 forwards to the cores: the enable bits of      *)
(* every frame and GICD_CTLR, with the driver calls that write them        *)
(* (enable_interrupt, enable_all_interrupts, gicd_set_control,             *)
(* gicd_clear_control, the CTLR write of setup) and the barriers that wait *)
(* for a write to take effect (gicd_barrier, gicr_barrier).                *)
(*                                                                         *)
(* ISENABLER and ICENABLER are two views of the same bits: both read as    *)
(* the bits, a one written to the first sets and to the second clears, a   *)
(* zero leaves alone.  A write that takes something away is in force only  *)
(* later, and until then the frame shows RWP.                              *)
(*                                                                         *)
(* Calls take &mut self, one at a time, so a step is one register write    *)
(* with the read before it.                                                *)
(***************************************************************************)
EXTENDS GicV3Frames

CONSTANTS
  BootRegs,   \* what the enable bits may be when the driver takes over
  Flag        \* the flags of GICD_CTLR a client or setup uses

SetupFlags == {"ARE_S", "EnableGrp1NS"}

ASSUME ForwardingAssumption ==
  /\ SetupFlags \subseteq Flag
  /\ BootRegs \subseteq {r \in [Frame -> SUBSET Ids] :
                           /\ r[Gicd] \subseteq SpiId
                           /\ \A c \in Cpu : r[c] \subseteq PrivateId}

VARIABLES
  enabled,    \* the enable bits of every frame
  live,       \* the interrupts every frame may still forward
  ctlr,       \* the flags set in GICD_CTLR
  ctlr_live,  \* the flags that may still be in force
  fcall,      \* the call that holds the driver and where it is, or Idle
  asked,      \* history: the interrupts whose last request was to enable them
  kept        \* history: those of them with no disable in their word since

vars == <<enabled, live, ctlr, ctlr_live, fcall, asked, kept>>
enables == <<enabled, live, asked, kept>>
control == <<ctlr, ctlr_live>>

AllSpisCalls == [op : {"all_spis"}, enable : BOOLEAN, reg : SPI_START .. max_reg + RegBits]
AllPrivateCalls == [op : {"all_private"}, enable : BOOLEAN, cpu : 0 .. CpuCount]
BarrierCalls == [op : {"barrier"}, frame : Frame]
ControlCalls == [op : {"set", "clear"}, flags : SUBSET Flag]

TypeOK ==
  /\ enabled \in [Frame -> SUBSET Ids]
  /\ live \in [Frame -> SUBSET Ids]
  /\ ctlr \in SUBSET Flag
  /\ ctlr_live \in SUBSET Flag
  /\ fcall \in {Idle} \cup AllSpisCalls \cup AllPrivateCalls \cup BarrierCalls \cup ControlCalls
  /\ asked \in SUBSET Line
  /\ kept \in SUBSET Line

EnabledLines == {l \in Line : l[2] \in enabled[l[1]]}

Init ==
  /\ enabled \in BootRegs
  /\ live = enabled
  /\ ctlr \in SUBSET Flag
  /\ ctlr_live = ctlr
  /\ fcall = Idle
  /\ asked = EnabledLines
  /\ kept = EnabledLines

(***************************************************************************)
(* The registers.                                                          *)
(***************************************************************************)
WriteIsenabler(f, bits) ==
  /\ enabled' = [enabled EXCEPT ![f] = @ \cup bits]
  /\ live' = [live EXCEPT ![f] = @ \cup bits]

WriteIcenabler(f, bits) ==
  /\ enabled' = [enabled EXCEPT ![f] = @ \ bits]
  /\ UNCHANGED live

WriteCtlr(flags) ==
  /\ ctlr' = flags
  /\ ctlr_live' = ctlr_live \cup flags

(* RWP of GICD_CTLR or GICR_CTLR.                                          *)
Rwp(f) == live[f] # enabled[f] \/ (f = Gicd /\ ctlr_live # ctlr)

(* The writes to a frame take effect.                                      *)
Settle(f) ==
  /\ Rwp(f)
  /\ live' = [live EXCEPT ![f] = enabled[f]]
  /\ ctlr_live' = IF f = Gicd THEN ctlr ELSE ctlr_live
  /\ UNCHANGED <<enabled, ctlr, fcall, asked, kept>>

(***************************************************************************)
(* enable_interrupt uses set_bit on either register: it reads a word, adds *)
(* the bit and writes the word.                                            *)
(***************************************************************************)
set_bit_all_ones(f, i) == WordOf(i)      \* a slip: the whole word
set_bit(f, i) == (enabled[f] \cap WordOf(i)) \cup {i}

EnableInterrupt(i, c) ==
  LET f == FrameOf(i, c)
  IN  /\ fcall = Idle
      /\ WriteIsenabler(f, set_bit(f, i))
      /\ asked' = asked \cup {<<f, i>>}
      /\ kept' = kept \cup {<<f, i>>}
      /\ UNCHANGED <<ctlr, ctlr_live, fcall>>

DisableInterrupt(i, c) ==
  LET f == FrameOf(i, c)
  IN  /\ fcall = Idle
      /\ WriteIcenabler(f, set_bit(f, i))
      /\ asked' = asked \ {<<f, i>>}
      /\ kept' = kept \ ({f} \X WordOf(i))
      /\ UNCHANGED <<ctlr, ctlr_live, fcall>>

(***************************************************************************)
(* enable_all_interrupts: the SPIs word by word, then every redistributor. *)
(***************************************************************************)
EnableAll(enable) ==
  /\ fcall = Idle
  /\ fcall' = [op |-> "all_spis", enable |-> enable, reg |-> SPI_START]
  /\ asked' = IF enable THEN Line ELSE {}
  /\ kept' = asked'
  /\ UNCHANGED <<enabled, live, ctlr, ctlr_live>>

AllSpis ==
  /\ fcall.op = "all_spis"
  /\ fcall.reg < max_reg
  /\ IF fcall.enable THEN WriteIsenabler(Gicd, SpiBits(fcall.reg))
                     ELSE WriteIcenabler(Gicd, SpiBits(fcall.reg))
  /\ fcall' = [fcall EXCEPT !.reg = @ + RegBits]
  /\ UNCHANGED <<ctlr, ctlr_live, asked, kept>>

AllSpisDone ==
  /\ fcall.op = "all_spis"
  /\ fcall.reg >= max_reg
  /\ fcall' = [op |-> "all_private", enable |-> fcall.enable, cpu |-> 0]
  /\ UNCHANGED <<enables, control>>

(* A slip of the next action: the loop runs to cpu_count inclusive.        *)
AllPrivate_inclusive ==
  /\ fcall.op = "all_private"
  /\ fcall.cpu <= CpuCount
  /\ IF fcall.enable THEN WriteIsenabler(fcall.cpu, PrivateId)
                     ELSE WriteIcenabler(fcall.cpu, PrivateId)
  /\ fcall' = [fcall EXCEPT !.cpu = @ + 1]
  /\ UNCHANGED <<ctlr, ctlr_live, asked, kept>>

AllPrivate ==
  /\ fcall.op = "all_private"
  /\ fcall.cpu < CpuCount
  /\ IF fcall.enable THEN WriteIsenabler(fcall.cpu, PrivateId)
                     ELSE WriteIcenabler(fcall.cpu, PrivateId)
  /\ fcall' = [fcall EXCEPT !.cpu = @ + 1]
  /\ UNCHANGED <<ctlr, ctlr_live, asked, kept>>

AllReturn ==
  /\ fcall.op = "all_private"
  /\ fcall.cpu = CpuCount
  /\ fcall' = Idle
  /\ UNCHANGED <<enables, control>>

(***************************************************************************)
(* gicd_barrier (f = Gicd) and gicr_barrier.                               *)
(***************************************************************************)
Barrier(f) ==
  /\ fcall = Idle
  /\ fcall' = [op |-> "barrier", frame |-> f]
  /\ UNCHANGED <<enables, control>>

(* A slip of the next action: always the distributor is asked.              *)
BarrierReturn_polls_gicd ==
  /\ fcall.op = "barrier"
  /\ ~Rwp(Gicd)
  /\ fcall' = Idle
  /\ UNCHANGED <<enables, control>>

BarrierReturn ==
  /\ fcall.op = "barrier"
  /\ ~Rwp(fcall.frame)
  /\ fcall' = Idle
  /\ UNCHANGED <<enables, control>>

(***************************************************************************)
(* gicd_set_control and gicd_clear_control read, modify and write          *)
(* GICD_CTLR and then wait at the distributor's barrier.                   *)
(***************************************************************************)
SetControl(flags) ==
  /\ fcall = Idle
  /\ WriteCtlr(ctlr \cup flags)
  /\ fcall' = [op |-> "set", flags |-> flags]
  /\ UNCHANGED enables

ClearControl(flags) ==
  /\ fcall = Idle
  /\ WriteCtlr(ctlr \ flags)
  /\ fcall' = [op |-> "clear", flags |-> flags]
  /\ UNCHANGED enables

(* A slip of the next action: no barrier.                                  *)
ControlReturn_without_barrier ==
  /\ fcall.op \in {"set", "clear"}
  /\ fcall' = Idle
  /\ UNCHANGED <<enables, control>>

ControlReturn ==
  /\ fcall.op \in {"set", "clear"}
  /\ ~Rwp(Gicd)
  /\ fcall' = Idle
  /\ UNCHANGED <<enables, control>>

(* setup writes GICD_CTLR and does not wait.                               *)
SetupCtlr ==
  /\ fcall = Idle
  /\ WriteCtlr(SetupFlags)
  /\ UNCHANGED <<enables, fcall>>

Next ==
  \/ \E i \in IntIds, c \in Cpu : EnableInterrupt(i, c) \/ DisableInterrupt(i, c)
  \/ \E enable \in BOOLEAN : EnableAll(enable)
  \/ \E f \in Frame : Barrier(f) \/ Settle(f)
  \/ \E flags \in SUBSET Flag : SetControl(flags) \/ ClearControl(flags)
  \/ SetupCtlr
  \/ AllSpis \/ AllSpisDone \/ AllPrivate \/ AllReturn
  \/ BarrierReturn \/ ControlReturn

Spec == Init /\ [][Next]_vars
-----------------------------------------------------------------------------
(***************************************************************************)
(* Properties.                                                             *)
(***************************************************************************)
Settled == fcall.op \notin {"all_spis", "all_private"}

(* No interrupt is enabled that a client last asked to disable: calls on   *)
(* other interrupts, and the loops of enable_all_interrupts with their     *)
(* half empty last word, never enable one by accident and never miss one.  *)
NeverMoreThanAsked == Settled => EnabledLines \subseteq asked

(* An interrupt that was enabled stays enabled at least until some         *)
(* interrupt of the same word is disabled; no call reaches beyond a word.  *)
KeptEnabled == Settled => kept \subseteq EnabledLines

(* A call enables or disables "the interrupt with the given ID"            *)
(* (gicv3.rs:191), so one that was asked to be enabled is.                 *)
AskedIsEnabled == Settled => asked \subseteq EnabledLines

(* When a barrier on a frame returns, no interrupt the frame was asked to  *)
(* disable reaches a core any more, whoever disabled it and however.       *)
BarrierQuiets ==
  [][fcall.op = "barrier" /\ fcall' = Idle =>
       \A l \in Line \ asked : l[1] = fcall.frame => l[2] \notin live'[l[1]]]_vars

(* When gicd_clear_control returns, its flags are out of force, even after *)
(* a setup that did not wait for its own write.                            *)
ClearedIsOff ==
  [][fcall.op = "clear" /\ fcall' = Idle => fcall.flags \cap ctlr_live' = {}]_vars
=============================================================================
