# A TLA+ model of arm-gic

`arm-gic` is a driver for the Arm Generic Interrupt Controller: version 3 and 4
(`src/src/gicv3.rs`), version 2 (`src/src/gicv2.rs`), and the identifiers both
share (`src/src/lib.rs`). This directory holds TLA+ modules of the driver
together with the hardware it talks to, TLC configurations that check them on
small instances, and proofs about them for every instance.

The driver is small. What makes it hard is the other side: registers that change
on their own, writes that are in force only later or not at all, registers
banked by core, two views of one register, and several cores that share one
driver object or take interrupts while another core is in the middle of a call.
Little of that is in reach of the repository's unit tests.

Paths and line numbers below are those of the repository; `gicv3.rs` is
`src/src/gicv3.rs` and so on.

## 1. Inventory

### Interrupt identifiers (`lib.rs`)
State: none; an `IntId` is a number. Operations: constructors (`sgi`, `ppi`,
`spi`, ...), classification (`is_sgi`, `is_private`, ...), the iterators
`private()` and `spis()`. Used by everything. Correct when the ranges do not
overlap and classification agrees with the constructors. Modules: `IntId` (what
the models of the driver need), `IntIdRanges` (all ranges).

### Register addressing (`gicv3.rs`, `gicv2.rs`, both `registers.rs`)
State: the stride of the redistributors, worked out once. Operations: `new`,
`gicd_ptr`, `gicr_ptr`, `sgi_ptr`, `modify_bit` and `set_bit`, the index every
call computes, the layout of five structs. Hard: a hundred fields, mostly
padding, decide the offsets; redistributors have two frames or four; the number
of SPIs need not be a multiple of 32; an identifier may have no register at all.
Correct when every call reaches exactly the bits of the interrupt it names, on
the core it names, or panics before it has written any of them. Modules:
`RegisterLayout`, `GicAddressing`; `GicV3Cores`, `GicV3Frames` and
`FramesLemmas`, the abstraction by frame and word that the other modules use.

### Identification registers (both `registers.rs`)
State: none, bit fields of `GICD_TYPER`, `GICR_TYPER`, `GICR_IIDR`. Operations:
their getters. Hard: counts that are stored less one, doubled or as exponents,
and an affinity that is laid out differently from `MPIDR`. Correct when they tell
what the chip has. Modules: `IdRegisters`, `GicAddressing`.

### GICv3 interrupt groups
State: `IGROUPR` and `IGRPMODR` of every frame. Operations: `set_group`, and the
loops of `setup`. Hard: one group is two bits in two registers, written one after
the other, while the hardware reads both; the reserved combination. Correct when
a call moves exactly the interrupts named, never through a group it must not
pass. Modules: `GicV3Group`, `InterruptGrouping` (what is promised).

### GICv3 forwarding
State: the enable bits of every frame, seen through `ISENABLER` and `ICENABLER`;
`GICD_CTLR`; `RWP`. Operations: `enable_interrupt`, `enable_all_interrupts`,
`gicd_set_control`, `gicd_clear_control`, `gicd_barrier`, `gicr_barrier`, the
`GICD_CTLR` write of `setup`. Hard: taking something away takes effect later;
read-modify-write on a write-one-to-clear register. Correct when exactly what
was asked for is enabled, and after a barrier what was disabled stays silent.
Module: `GicV3Forwarding`.

### GICv3 redistributor sleep handshake
State: `GICR_WAKER` of every redistributor. Operations:
`redistributor_mark_core_awake`, `redistributor_mark_core_asleep`. The driver
owns `ProcessorSleep`, the redistributor `ChildrenAsleep`. Hard: the calls check a
value that may be stale when they write; they wait for an answer. Correct when
the four-phase handshake is kept and a call that returns has finished it.
Modules: `GicV3Waker`, `SleepHandshake` (what is promised).

### GIC-600/700 redistributor power
State: `GICR_PWRR` of every redistributor, whose group bits are shared by all
redistributors behind one cluster interface. Operations: `gicr_power_on`,
`gicr_power_off`; on other GICs they do nothing. Hard: a group in transit ignores
writes; the last man of a group takes it down; it may abort. The driver keeps no
order between these calls and the sleep handshake: its clients must. Correct when
a powered-on redistributor stays on, a power-off is not lost, calls return, and a
client that keeps the order never powers down a redistributor that is awake.
Modules: `GicV3Power`, `GicV3Redistributor`.

### GICv3 bring-up
State: the system registers of every core, plus groups, waker and `GICD_CTLR`.
Operations: `init_cpu`, `setup`, `enable_group1`. Hard: `enable_group1` needs no
driver and runs at any time; `init_cpu` ignores an error; other cores use the
driver between the calls. Correct when a core takes interrupts from `setup` only
in a system that is fully set up. Module: `GicV3Setup`.

### GICv3 priorities, triggers and the CPU interface
State: priority and trigger of every interrupt, the priority mask and the enabled
groups of every core, what is pending, active and being handled. Operations:
`set_interrupt_priority`, `set_trigger`, `set_priority_mask`, `enable_group0`,
`enable_group1`, `send_sgi`, `get_and_acknowledge_interrupt`, `end_interrupt`,
`get_pending_interrupt`. Hard: three worlds with groups of their own share a core;
acknowledge may answer with a special identifier that is returned like an
interrupt; priorities, masks and groups change while handlers nest. Correct when
an interrupt is active exactly while it is handled, is taken by the world, at the
priority and from the groups asked for, and an SGI arrives where it was sent.
Module: `GicV3Delivery`.

### System registers (`sysreg.rs`, `sysreg/*.rs`)
State: none of its own; the accessors of the CPU interface registers, as AArch64
instructions by name, AArch32 ones by encoding, or fields of fake registers in
unit tests. Hard: on AArch32 a wrong number in an encoding is another register.
Correct when each accessor reaches the register it is named for. Module:
`SystemRegisters`, used by `GicV3Delivery`.

### GICv2 distributor configuration (`gicv2.rs`)
State: enable, group, trigger and priority registers, those of private
interrupts banked by core; `GICC_CTLR` and `GICC_PMR` of every core. Operations:
`setup`, `enable_interrupt`, `enable_all_interrupts`, `set_interrupt_priority`,
`set_trigger`, `set_priority_mask`. Hard: banking; word writes to registers that
several interrupts share. Correct when each call changes what it names. Module:
`GicV2Config`.

### GICv2 delivery
State: what devices assert, pending and active interrupts at every CPU
interface, and what the software of each core is handling. Operations: `send_sgi`,
`get_and_acknowledge_interrupt`, `end_interrupt`. Hard: the same SGI from several
cores is several interrupts; handlers nest; in Secure state an SGI is forwarded
only where its group is the one `NSATT` asks for. Correct when an edge
stays pending until it is taken, an interrupt is active exactly while it is
handled, and an SGI reaches the cores meant. Module: `GicV2Delivery`.

### Interrupt masking and `wfi` (`lib.rs`)
`irq_enable`, `irq_disable` and `wfi` are single instructions. Not modelled.

### How they interact
All GICv3 calls but the associated functions (`enable_group1`, `send_sgi`,
acknowledge and end of interrupt, ...) and all GICv2 calls take `&mut self`, so
at most one core is inside such a call, but any core can be, in any order, and
the hardware and the other cores run between any two register accesses. Every
module follows this: a variable `gcall`, `wcall`, `fcall`, `pcall`, `scall` or
`dcall` names the call that holds the driver and where it is, a step is one
register access (or a read with the write that depends on it, where nothing else
writes the register), and hardware actions are enabled independently of it.

## 2. Plan and order

1. `IntId`, `GicV3Cores`, `GicV3Frames`: identifiers and addressing by frame. Done.
2. `GicV3Group` with `InterruptGrouping`; proofs. Done.
3. `GicV3Waker` with `SleepHandshake`; proofs. Done.
4. `GicV3Power`, and `GicV3Redistributor` composing it with 3; proofs. Done.
5. `GicV3Forwarding`; proofs. Done.
6. `GicV3Setup`, composing 2 and 3; proofs. Done.
7. `GicV2Config`, and `GicV2Delivery` composed with it; proofs. Done.
8. `GicV3Delivery` over `SystemRegisters`; proofs. Done.
9. `IntIdRanges`; proofs. Done.
10. `RegisterLayout`, `IdRegisters`, `GicAddressing`; proofs. Done.

Every safety property that a run checks is also a theorem; what the plan leaves is
in section 6 and at the end of section 5.

A component's theorems are in the module named after it with `_proofs`; those of a
component that another composes are in the module of the composition.

## 3. Modules, state and actions

`IntId` keeps the boundaries of the ranges as constants, ordered as in the
program. `GicV3Cores` has the cores. `GicV3Frames` makes a register file with one
bit per interrupt the set of identifiers whose bit is set and a 32-bit register
one word of it. The width is `SPI_START` because the private interrupts fill
exactly one register. `Line` is the set of interrupts as the hardware knows them:
a private identifier is a different interrupt on each core.

`GicV3Group` (`GroupInit`, `GroupNext`, `GroupSpec`). `igroupr`, `igrpmodr` are the
two register files, `gcall` the call. `SetGroup`, `SetGroupIgroupr`,
`SetGroupIgrpmodr` are the call and the two writes of `set_group`; `Setup`,
`SetupPrivate`, `SetupTyper`, `SetupSpis`, `SetupReturn` the loops of `setup`.
`LineGroup` and `PendingRequest` map the state to `InterruptGrouping`, in which one
request at a time moves a set of interrupts to a group: on the way to Non-secure
group 1 an interrupt is where it was or already there, on the way to a secure
group it is never moved to the Non-secure one.

`GicV3Waker` (`WakerInit`, `WakerNext`, `WakerSpec`). `ps`, `ca` are the two bits of
`GICR_WAKER`; `wlast` remembers, for each core, the call about it that returned
last. Per call: read (going on, or the error), write, wait. `Follow` is the
redistributor. `SleepHandshake` is the cycle awake, falling, asleep, waking; the
two bits are its phase.

`GicV3Power` (`PowerInit`, `PowerNext`, `PowerSpec`). `rdpd`, `rdgpd`, `rdgpo` are what
`GICR_PWRR` reads, `req` the value written and taken, `want` (history) what the last
finished call asked for. `WaitRead`, `WaitSpin` and `WaitEnd` are
`gicr_wait_until_group_not_in_transit`: the register is read once, the loop tests
the value read. `WritePwrr` may be ignored while the group is in transit.
`Reflect`, `IntendDown`, `IntendUp`, `Reach` are the hardware: a group goes down
when all its members permit it, up when one withdraws, and may turn back.

`GicV3Redistributor` extends both. Its clients know only what their last call for a
redistributor has returned: they power off one whose last handshake call marked
it asleep, and use `GICR_WAKER` of one whose last power call was `power_on`.

`GicV3Forwarding`. `enabled` is the register content, `live` what a frame may
still forward; likewise `ctlr` and `ctlr_live`. `Rwp` is their difference and
`Settle` ends it. `asked` and `kept` are history: the interrupts whose last
request was to enable them, and those of them with no disable in their word
since. `WriteIcenabler` clears every bit written as one; `set_bit` reads the word
first, as `enable_interrupt` does on both registers.

`GicV3Setup` extends `GicV3Group` and `GicV3Waker` and runs their actions inside
`init_cpu` and `setup` (`scall`), together with `set_group`, the mark calls and
control changes of other cores, and `enable_group1` on any core at any time. The
waits for `RWP` of control changes are in `GicV3Forwarding` and left out here: a
change of `GICD_CTLR` is one step, its read, write and wait together. What
`SetupIsReady` says to be in place are the contents of the registers.

`GicV3Delivery`. A core changes between EL3, which takes group 0, and the Secure
and Non-secure worlds, which take their group 1; `handling` is the stack of what
its software got from acknowledge, with the world that asked. `raised` and
`latched` are the device lines and the pending bits, `edge`, `priority`, `pmr` and
`igrpen` the configuration, `active` the active interrupts with the priority they run at,
`asked` is history. `SgiValue` and `SgiRegister` are what `send_sgi` writes and
where, `Routed` and `Forwards` how the hardware reads it. Acknowledge takes the best
interrupt or gets the special answer that belongs to register, world and group
(`Iar`); the driver returns all answers but 1023 as interrupts, and the software
ends all it gets. A call is one step, as it touches the calling core's registers
only, or holds the driver and reads nothing the hardware writes. A client
changes the trigger of an interrupt while it is quiet, as the architecture asks.
`EnableGroup` is both enable calls, `ICC_IGRPEN1` being banked by security state.
The calling software of `send_sgi` is Secure; which lines exist, their groups and
routes are constants.

`SystemRegisters` has the arguments of the accessor macros (`Sysreg`) and the
encodings of the architecture. `Accessed(arch, sysreg)` is the register an accessor
reaches; `GicV3Delivery` sends, acknowledges and ends through it, with `Arch` the
architecture the driver is built for.

`GicV2Config` (`ConfigInit`, `ConfigNext`, `ConfigSpec`). A line is a bank and an
identifier; the bank of a private identifier is the core that makes the access.
`dcall` is the loop in progress; `asked`, `edgeAsked` and `prioAsked` are history.
`SetupReturn` makes the last two writes of `setup`, of `GICC_CTLR` and `GICC_PMR`, in
one step: nothing is acknowledged before the call is over.
`SetTrigger` reads and writes the word of the trigger, `SetInterruptPriority` writes
the word of the priority.

`GicV2Delivery` extends it with devices (`raised`, `latched`), pending SGIs and the CPU
interfaces. An interrupt at a CPU interface is the number in `GICC_AIAR`, with the
sender of an SGI in bits 12:10. `handling` is the stack of handlers of each core.
The interface may signal any pending interrupt below the priority mask that is
enabled, in group 1 and not active, on a core where `setup` has run; that covers
every order of priorities. `setup` writes bit 1 of `GICD_CTLR` and bit 0 of
`GICC_CTLR`; the model takes group 1 as enabled by the two. `Target` is what
`GICD_ITARGETSR` holds, as the driver never writes it. `Secure` says in which state
the driver runs: a Non-secure write to `GICD_SGIR` counts as `NSATT` set. `SgiInput`
leaves out target lists that their filter ignores. Clients change a trigger while
the interrupt is disabled and its device quiet.

`RegisterLayout` has the structs as sequences of fields, "gap" for the reserved and
implementation defined ones, and the offsets `#[repr(C)]` gives them; the fields of
nested structs are listed in place. `IdRegisters` has the getters, on register
values that are sets of bits; `BitField` is a shift and a mask. `GicAddressing` has a
driver that is constructed (`New`, which works out the `stride`) and called: `result`
lists the places reached, a place being a region and the number of a bit in it,
and ends in `Panic` when the call did: what was reached before stays in it
(`UpToPanic`). The architecture's side are `ArmFile`, `ArmRegister` and `Window`, where
every interrupt and register is, and `LegalChip` with `TyperValue` and
`GicrTyperValue`: which chips there are and what their identification reads. `Configure` is a call about one interrupt, `Loop` the
word accesses of `setup` and `enable_all_interrupts`, `Register` an access by name,
`Typer` and `GicrTyper` the identification. All redistributors of a chip have the
same frames, and the caller of `new` says truthfully whether it is a GICv4.

`IntIdRanges` has every range with its constructor and `Kind` and `Shown`, the
classification of the `Debug` output.

Definitions with a suffix, introduced as a slip (for example
`SetGroupIgrpmodr_inverted`), are no part of any specification: each is a plausible
mistake in the definition before or after it, put in its place to see that the
property listed for it in `PROJECT.json` then fails.

## 4. Runs

| run | what it asks | result |
|---|---|---|
| `forwarding` | `NeverMoreThanAsked`, `KeptEnabled`, `ClearedIsOff`, `BarrierQuiets` | hold |
| `forwarding_asked` | `AskedIsEnabled`: an interrupt asked to be enabled is | violated |
| `redistributor` | `ImplementsHandshake`, `SettledStays`, `ResultsHold`, `CallsReturn`, `PowerHolds`, `CallsReturnOrSpin`, `PowerFollowsSleep` | hold |
| `power_wait` | `TransitWaitEnds`: a wait for the group ends | violated |
| `setup` | `OnlyExistingSpis`, `NoReservedEncodingLeft`, `ImplementsGrouping`, `SetupIsReady`, `InitWakes`, `SetupReturns` | hold |
| `v3_delivery` | `ActiveIsHandled`, `WorldsOwnGroups`, `SgisArrive`, `TakenAsAsked`, `TriggerAsAsked` | hold |
| `v3_aarch32` | `SgisArrive`, built for AArch32 | violated |
| `v2` | `EnabledAsAsked`, `SetupCovers`, `TriggerAsAsked`, `ActiveIsHandled`, `ListsReach`, `NoEdgeLost` | hold |
| `v2_priority` | `PriorityAsAsked`: the others keep their priority | violated |
| `v2_all` | `AllReachesOthers`: `SgiTarget::All` is all but the sender | violated |
| `addressing` | `InterruptsReached`, `RegistersReached`, `LoopsCover`, `OwnRedistributor`, `CountsTold` | hold |
| `num_cpus` | `NumCpusTold`: `Typer::num_cpus` is the number of cores | violated |

The passing runs also check the type invariants of their modules. What the
violated ones show:

- `forwarding_asked`: `enable_interrupt(.., false)` (`gicv3.rs` 201 and 206) uses
  `set_bit` on `ICENABLER`. The register reads as the enabled interrupts and
  clears every one written, so all 32 interrupts of the word are disabled.
- `power_wait`: `gicr_wait_until_group_not_in_transit` (`gicv3.rs` 485-494) reads
  `GICR_PWRR` before its loop only. A call that meets a group in transit, such as
  the `power_off` of the last man, which has just started one, never returns.
  `CallsReturnOrSpin` shows that this is the only way not to return.
- `v3_aarch32`: the three 64-bit SGI registers are told apart by `opc1` alone, and
  all three accessors (`sysreg.rs` 29-31) pass 0. An SGI for group 0 or for the
  other world goes out as one for the sender's group 1.
- `v2_priority`: `set_interrupt_priority` (`gicv2.rs` 110-115) writes a register of
  four priorities with one of them, the others become 0, the highest.
- `v2_all`: `SgiTarget::All` (`gicv2.rs` 139) is the list of all cores with the
  filter that uses the list, the sender included; its documentation (line 180)
  excludes it. The run is one in Non-secure state. (What it does not show, but the
  code and `SgiValue` have: the value does not set `NSATT` either, so in Secure state
  it reaches no core whose SGIs `setup` has moved to group 1.)
- `num_cpus`: `Typer::num_cpus` of GICv3 (`gicv3/registers.rs` 291-293) returns the
  field that holds the number of cores less one.

### Bounds, and why they are enough

- Identifiers: one SGI, one PPI, and words two bits wide, except in `addressing`,
  which has the real boundaries. The code treats all private identifiers alike and
  all SPIs alike; what differs is the first, the last and the half empty word of
  the SPIs, and neighbours in a word. Three SPIs in two words (`setup`,
  `forwarding`) have all of these. The identifier `SPECIAL_START` cuts the last word
  as 1020 does.
- Cores: two, where private interrupts of different cores must not be confused;
  three in `redistributor` and `power_wait`, two behind one cluster interface so that
  there is a last man and a neighbour, and one behind another, and so that a call on
  one core has two bystanders.
- Boot contents (`BootRegs`): all clear or all set in `setup` and `forwarding`.
  `redistributor` starts in every settled or unsettled state in which what is
  powered down is asleep.
- `ClientIds` in `setup`: clients move one SPI, the one in the half empty word, which
  all cores share; `setup` itself moves all interrupts of all cores.
- `Flag` in `forwarding`: two flags of `GICD_CTLR`.
- `v3_delivery` has an SGI that is Secure on one core and in group 0 on the other
  and an SPI for the Non-secure world, so that all three worlds meet on one core;
  two priorities, a mask that lets both through and one that stops the lower;
  `Switched`, the groups that are disabled and enabled again: the Non-secure one on the
  core it shares with the Secure world, and group 0 on the other;
  two answers worked on at a time, so that one handler interrupts another.
- `v2` has one SGI that both cores send, and two SPIs in one trigger word; a device
  drives the first, which goes to core 0, the second is a neighbour to be left alone.
  `Masking`: core 0 alone changes its priority mask. `MaxNesting = 2`: two handlers on
  a core, so that the same SGI from two cores can meet. `LoopDepth = 0`: calls with a
  loop begin while no core has a handler at work; devices act during them.
- `v2_priority` has two priorities per register and one core.
- `addressing` and `num_cpus` have three cores; identifiers at both ends of every
  range; the affinities differ in every level. Chips of each version, with and
  without virtual LPIs, take all calls. The other chips differ in identification
  only and take the calls that read it: the number of SPIs includes none and the
  maximum, which ends inside a word, and LPIs are told by their own field or by
  the identifier bits, or absent. Values that
  no chip may have (`num_lpis` with an exponent of 31, 32 identifier bits) are left out.

### Fairness, and what justifies it

A core inside a call goes on with it: weak fairness of the driver's steps, as
the calls are straight-line code and polling loops. No fairness makes anyone
begin a call. The hardware answers: `ChildrenAsleep` follows (`WakerFairness`), a
group in transit arrives, a group that is wanted comes up and `RDPD` reads what
was written (`PowerFairness`); the architecture promises each, and the driver's
loops wait for them with no timeout. No fairness takes an idle group down. `Spec`
without fairness is enough for all safety properties. `FairSpec` of
`GicV3Redistributor` is used for `CallsReturn` and `CallsReturnOrSpin`, `FairSpec` of
`GicV3Setup` for `SetupReturns`, and `PowerFairSpec` to refute `TransitWaitEnds`.

## 5. Proofs

All are for every value of the constants, from the named assumptions only. These
are evaluated by every run and say no more than what the driver is given:

- `IntIdAssumption`, `CpuCountAssumption`, `FramesAssumption`: the ranges are
  ordered, there is a core, the number of distributor words is a natural number.
- `BootAssumption`, `ForwardingAssumption`: boot contents stay in the bits that are
  implemented. `PowerAssumption`: every redistributor has a group. `ClientAssumption`:
  clients name interrupts that exist.
- `ConfigAssumption` and `DeliveryAssumption` (GICv2): there are words, and as many
  interrupts to one as the constants say; at most eight cores; identifiers end
  below 1024, where `GICC_AIAR` keeps the sender; SGIs are the identifiers of SGIs.
- `DeliveryAssumption` (GICv3): every line has a group and every SPI a route;
  `Arch` is one of the two builds.
- `AddressingAssumption`: the program's own boundaries 32 and 1020, as the structs
  have these widths; affinities that differ; at most 65536 cores, as many as
  `GICR_TYPER` can number; and `LegalChip`: counts that the fields of the identification
  registers can tell, in the units they tell them in. `GICD_TYPER` tells
  SPIs by 32, so a chip has a multiple of 32 of them, or all 988; LPIs are told by
  their own field or follow from the number of identifier bits.

`FramesLemmas` has what register addressing does: which word a bit is in, that
`modify_bit` changes one bit, and `SpiBitsExact`: the loop over the SPIs writes
exactly the existing ones, whatever their number. Each of the other modules has an
inductive invariant, which a run of TLC has checked first, made of the properties
and of what they rest on.

`GicV3Setup_proofs`, first of the group registers alone (`GroupSpec`):
`GroupTypeCorrect`, `SpisOnly`, `NoReservedEncoding`, `GroupingRefinement`. That a
returning `set_group` has reached its group rests on what its first write left
(`GroupBitWritten`), that it stays among existing interrupts on the line the call
names (`CallNamesLine`), and that `setup` ends with every interrupt in the group on
how far the loops have come (`SetupProgress`). The refinement goes action by
action: first write and loop steps are `Progress`, the second write and the end of
`setup` are `Finish`, the start of a loop is a stutter. Then of the bring-up:
`TypeCorrect`, `ReadyAtTheEnd`, `WakesTheCore`, and `Parts`, that it uses group
registers and handshake within their own specifications, so that everything proved
of them holds in it. `SetupIsReady` needs that while `init_cpu` or `setup` is at
work the only calls are its own (`OwnCalls`), and that what it has done by each
stage stays done until it returns (`DoneSoFar`), although `enable_group1` and the
redistributors act at any time. `WakesTheCore` says more than what holds on return:
from then on the redistributor stays awake through every step but the beginning of
a `mark_core_asleep` about that core. It rests on `DoneSoFar` and on `NoneMeanwhile` of
the handshake, that a call at work is about a core whose last result no longer counts.

`GicV3Waker_proofs` proves `WakerTypeCorrect`, `HandshakeRefinement`, `CallsSettle`
and `ResultsAreTrue`, of `WakerSpec`. The invariant says how stale a read may be: if
the bit a call is about to change still has its old value, the redistributor still
agrees (`WriteIsSafe`); and a call that waits has asked for what it waits for
(`AskedFor`). `CallsSettle` and `ResultsAreTrue` hold from a state on, so each has an
invariant of its own that is shown to persist; the second needs that no call is at
work on a core while its last result is trusted (`NoneMeanwhile`).

`GicV3Redistributor_proofs`, first of power alone (`PowerSpec`): `PowerTypeCorrect`
and `PowerIsKept`. Needed besides the property: a redistributor is up only in a
group that is up (`GroupCarries`), only a `power_on` at work leaves one on its way up
(`OnlyCallPending`), after the write of a `power_off` the request has been taken
(`AfterWrite`), and no call disturbs what another core asked for (`WantHolds`). Then
of the composition: `Parts`, and `DownAsleep`, which is `PowerFollowsSleep`. Its
invariant adds the truth of the last handshake results (`LastCallHolds`, from
`GicV3Waker_proofs`), that one call at a time holds the driver (`OneCall`), and that
a `power_off` works on a redistributor that is asleep all the while (`OffAsleep`).

`GicV3Forwarding_proofs` proves `TypeCorrect`, `NeverMore`, `EnabledIsKept`,
`BarrierWaits` and `ClearWaits`. The loops change one word at a time while `asked`
already has all of them, so the invariant follows each loop: it has asked for all
or for none (`LoopAsked`), and what it has passed is as asked (`LoopProgress`). That
frames enable only bits of interrupts (`OnlyLines`) makes the last, partial word end
where the SPIs do; `ClearWaits` needs that the flags of a clear that waits are
written (`ClearWritten`).

`GicV2Delivery_proofs` proves all properties of the run `v2`: `TypeCorrect`, `Enables`,
`SetupReaches`, `Triggers`, `ActiveHandled`, `SgiListsReach`, `EdgesArrive`.
`EnableAllProgress` and `SetupProgress` follow the loops, in the bank of the core that
runs them and in the distributor, and leave the other banks as they were.
`ActiveIsHandled` needs that no core handles the same interrupt from the same sender
twice (`HandledOnce`): else ending one would end the other. `NoEdgeLost` needs that
only edges are latched (`LatchedAreEdges`), which a client that changes the trigger of
a quiet interrupt only keeps (`QuietTrigger`).

`GicV3Delivery_proofs` proves `TypeCorrect`, `ActiveHandled`, `OwnGroups`,
`Aarch64SgisArrive`, `TakenWhenAsked` and `Triggers`. All but one hold in both builds,
as every accessor but those for SGIs reaches its register (`AccessedIsNamed`). SGIs
arrive where they were sent when `Arch` is "aarch64"; the run `v3_aarch32` shows that
this hypothesis is needed. `HandledOnce` lets the special answers repeat on the stack
of a core, as they are returned like interrupts; that they disturb no active one
rests on `SpecialApart`. A pending level triggered interrupt is pending by its line
(`LatchedAreEdges`), and what was last asked is what the registers hold (`AskedHolds`).

`GicAddressing_proofs` proves `ConstructorsAndKindsAgree`,
`PredicatesAndIteratorsAgree` and `MaxEspiExists` wherever the ranges begin: no
constructor leaves its range, so no two make the same identifier, predicates,
iterators and `Debug` agree, and the largest extended SPI a distributor can announce
is one. Then, for every identifier, every number of cores, every assignment of
affinities and every chip, all properties of the run `addressing`:
`ReachesItsBits`, `RegistersWhereTheyAre`, `LoopsReachAll`, `FindsItsRedistributor`,
`TellsTheCounts`, and `StrideFound`: the driver finds the distance between the
redistributors. None has a hypothesis beside the assumptions. That `set_group` cannot
panic between its two registers is in `ReachesItsBits`: both have the interrupt or
neither has, so the first access of a call panics if any would (`PanicsAtOnce`). The
theorems rest on three things about data:

- The layout. `End` is a recursion over the fields of a struct. A table says where
  every field begins, each entry is checked against its neighbour (`Placed`), and
  `LayoutOf` shows that a struct whose fields tile it that way has them there:
  `FilesAreLaidOut` for the register files, `RegisterAt` for every single register.
- The fields of the identification registers. The bits of a number are the parities
  of its halves (`Halved`), a number below a power of two has no bit from that power
  on (`HalvesEnd`, `BitsOf`), so the fields of a register do not touch one another and
  reading one gives back what was put in (`FieldIs`, `TyperFields`, `GicrTyperFields`).
- The places. Index and bit of an interrupt together are its bits
  (`PlaceIsArmPlace`), and `PlacesApart`: no two interrupts share a place, in any
  register file or on any two cores. That is what lets the other modules name a bit
  by file, frame and interrupt, as `GicV3Frames` does.

The two recursions are functions over an interval, `End` and `BitField`. The induction
they need is itself proved (`Induction`, `Recursion`) from the cardinality of finite
sets, as the theorems of the library take an operator as a parameter: a set that has
0 and the successor of each of its numbers, but not n, would map its numbers up
to n into themselves without 0.

The inductive invariant is the conjunction of the properties with `StrideIsWindow`,
as a call can be right only after `new` has found the distance.

Only model-checked:

- The liveness properties `CallsReturn`, `CallsReturnOrSpin` and `SetupReturns`: the
  prover has no `ENABLED`, so nothing under fairness.
- The properties that the runs refute: they do not hold.

## 6. Not modelled, and why

- `Debug` and `Display` output but for the ranges it tells apart, and error texts.
- `irq_enable`, `irq_disable`, `wfi`: single instructions, which touch no register
  of the interrupt controller.
- The fake registers as storage: one set of fakes stands for all cores, and they
  have no interrupt behaviour; only which field an accessor reaches is modelled.
- Extended PPIs and SPIs as interrupts: a call that names one panics at its first
  access, which `InterruptsReached` checks.
- `get_pending_interrupt`, which changes no state. `send_sgi` of GICv3 from the
  Non-secure world, where what arrives depends on `NSACR` registers the driver does
  not write. What becomes of a pending interrupt when its group changes.
- The barriers' loops end exactly when the hardware clears `RWP`: a liveness run
  would check the assumption, so there is none.
- Redistributors that are not contiguous or have different frames: the driver's
  interface excludes the first, and takes the stride from the first redistributor.
- Which of the bits `setup` of GICv2 writes enables group 1 (`gicv2.rs` 55): it
  depends on the security state and on firmware.
- Two driver objects for one GIC: constructing one is unsafe and its contract
  excludes a second.
