----------------------------- MODULE GicV3Waker -----------------------------
(***************************************************************************)
(* GICR_WAKER of every redistributor and the two driver calls that use it, *)
(* redistributor_mark_core_awake and redistributor_mark_core_asleep.       *)
(*                                                                         *)
(* The driver owns ProcessorSleep, the redistributor ChildrenAsleep, which *)
(* follows ProcessorSleep after a while.  The redistributor runs between   *)
(* any two register accesses of the driver, so what a call has read may    *)
(* be out of date when it writes.  Calls take &mut self: one at a time.    *)
(***************************************************************************)
EXTENDS GicV3Cores

VARIABLES
  ps,       \* Waker::PROCESSOR_SLEEP of each redistributor
  ca,       \* Waker::CHILDREN_ASLEEP of each redistributor
  wcall,    \* the call that holds &mut self and where it is, or Idle
  wlast     \* the call that returned last for each core, with Ok or an error, or
            \* "none" before any and while another is at work

wakerVars == <<ps, ca, wcall, wlast>>

WakerCall == [op : {"awake", "asleep"}, cpu : Cpu, pc : {"write", "wait"}]

WakerTypeOK ==
  /\ ps \in [Cpu -> BOOLEAN]
  /\ ca \in [Cpu -> BOOLEAN]
  /\ wcall \in {Idle} \cup WakerCall
  /\ wlast \in [Cpu -> {"none", "awake", "asleep"}]

(* Whatever ran before the driver may have left a handshake unfinished.    *)
WakerInit ==
  /\ ps \in [Cpu -> BOOLEAN]
  /\ ca \in [Cpu -> BOOLEAN]
  /\ wcall = Idle
  /\ wlast = [c \in Cpu |-> "none"]

(* A call returns.                                                         *)
WakerReturn(op, c) ==
  /\ wcall' = Idle
  /\ wlast' = [wlast EXCEPT ![c] = op]

(***************************************************************************)
(* redistributor_mark_core_awake.  The first step is the call and its read *)
(* of the register.                                                        *)
(***************************************************************************)
(* A slip of the next action: the check of ChildrenAsleep is missing.      *)
MarkAwakeRead_unguarded(c) ==
  /\ wcall = Idle
  /\ wcall' = [op |-> "awake", cpu |-> c, pc |-> "write"]
  /\ wlast' = [wlast EXCEPT ![c] = "none"]
  /\ UNCHANGED <<ps, ca>>

(* Another: the frame of the next core is used.                            *)
MarkAwakeRead_next_core(c) ==
  /\ wcall = Idle
  /\ ca[c]
  /\ wcall' = [op |-> "awake", cpu |-> c + 1, pc |-> "write"]
  /\ wlast' = [wlast EXCEPT ![c] = "none"]
  /\ UNCHANGED <<ps, ca>>

MarkAwakeRead(c) ==
  /\ wcall = Idle
  /\ ca[c]
  /\ wcall' = [op |-> "awake", cpu |-> c, pc |-> "write"]
  /\ wlast' = [wlast EXCEPT ![c] = "none"]
  /\ UNCHANGED <<ps, ca>>

MarkAwakeErr(c) ==        \* Err(GICRError::AlreadyAwake)
  /\ wcall = Idle
  /\ ~ca[c]
  /\ WakerReturn("awake", c)
  /\ UNCHANGED <<ps, ca>>

(* A slip of the next action: the sleep bit is set instead of cleared.     *)
MarkAwakeWrite_sets_the_bit ==
  /\ wcall # Idle /\ wcall.op = "awake" /\ wcall.pc = "write"
  /\ ps' = [ps EXCEPT ![wcall.cpu] = TRUE]
  /\ wcall' = [wcall EXCEPT !.pc = "wait"]
  /\ UNCHANGED <<ca, wlast>>

MarkAwakeWrite ==
  /\ wcall # Idle /\ wcall.op = "awake" /\ wcall.pc = "write"
  /\ ps' = [ps EXCEPT ![wcall.cpu] = FALSE]
  /\ wcall' = [wcall EXCEPT !.pc = "wait"]
  /\ UNCHANGED <<ca, wlast>>

(* A slip of the next action: the call returns without waiting.            *)
MarkAwakeWait_returns_at_once ==
  /\ wcall # Idle /\ wcall.op = "awake" /\ wcall.pc = "wait"
  /\ WakerReturn("awake", wcall.cpu)
  /\ UNCHANGED <<ps, ca>>

MarkAwakeWait ==
  /\ wcall # Idle /\ wcall.op = "awake" /\ wcall.pc = "wait"
  /\ ~ca[wcall.cpu]
  /\ WakerReturn("awake", wcall.cpu)
  /\ UNCHANGED <<ps, ca>>

(***************************************************************************)
(* redistributor_mark_core_asleep.                                         *)
(***************************************************************************)
(* A slip of the next action: the frame of the next core is used.          *)
MarkAsleepRead_next_core(c) ==
  /\ wcall = Idle
  /\ ~ca[c]
  /\ wcall' = [op |-> "asleep", cpu |-> (c + 1) % CpuCount, pc |-> "write"]
  /\ wlast' = [wlast EXCEPT ![c] = "none"]
  /\ UNCHANGED <<ps, ca>>

MarkAsleepRead(c) ==
  /\ wcall = Idle
  /\ ~ca[c]
  /\ wcall' = [op |-> "asleep", cpu |-> c, pc |-> "write"]
  /\ wlast' = [wlast EXCEPT ![c] = "none"]
  /\ UNCHANGED <<ps, ca>>

MarkAsleepErr(c) ==       \* Err(GICRError::AlreadyAsleep)
  /\ wcall = Idle
  /\ ca[c]
  /\ WakerReturn("asleep", c)
  /\ UNCHANGED <<ps, ca>>

MarkAsleepWrite ==
  /\ wcall # Idle /\ wcall.op = "asleep" /\ wcall.pc = "write"
  /\ ps' = [ps EXCEPT ![wcall.cpu] = TRUE]
  /\ wcall' = [wcall EXCEPT !.pc = "wait"]
  /\ UNCHANGED <<ca, wlast>>

MarkAsleepWait ==
  /\ wcall # Idle /\ wcall.op = "asleep" /\ wcall.pc = "wait"
  /\ ca[wcall.cpu]
  /\ WakerReturn("asleep", wcall.cpu)
  /\ UNCHANGED <<ps, ca>>

(* The redistributor: ChildrenAsleep catches up with ProcessorSleep.       *)
Follow(c) ==
  /\ ca[c] # ps[c]
  /\ ca' = [ca EXCEPT ![c] = ps[c]]
  /\ UNCHANGED <<ps, wcall, wlast>>

WakerDriver ==
  \/ \E c \in Cpu : \/ MarkAwakeRead(c)  \/ MarkAwakeErr(c)
                    \/ MarkAsleepRead(c) \/ MarkAsleepErr(c)
  \/ MarkAwakeWrite  \/ MarkAwakeWait
  \/ MarkAsleepWrite \/ MarkAsleepWait

WakerNext == WakerDriver \/ \E c \in Cpu : Follow(c)

WakerSpec == WakerInit /\ [][WakerNext]_wakerVars

(* A core that runs a call keeps running it, and every redistributor       *)
(* answers in the end.  Nobody has to make a call.                         *)
WakerFairness ==
  /\ WF_wakerVars(MarkAwakeWrite) /\ WF_wakerVars(MarkAwakeWait)
  /\ WF_wakerVars(MarkAsleepWrite) /\ WF_wakerVars(MarkAsleepWait)
  /\ \A c \in Cpu : WF_wakerVars(Follow(c))

WakerFairSpec == WakerSpec /\ WakerFairness
-----------------------------------------------------------------------------
(***************************************************************************)
(* Properties.                                                             *)
(***************************************************************************)

(* The comments in both calls say when ProcessorSleep may change: to 0     *)
(* only when ChildrenAsleep is 1, to 1 only when it is 0.  The calls check *)
(* that on a value that can be stale by the time they write; still every   *)
(* change follows the handshake, whatever state the boot left behind.      *)
PhaseOf(p, a) ==
  IF p THEN (IF a THEN "asleep" ELSE "falling") ELSE (IF a THEN "waking" ELSE "awake")

Handshake == INSTANCE SleepHandshake WITH phase <- [c \in Cpu |-> PhaseOf(ps[c], ca[c])]

ImplementsHandshake == Handshake!Spec

(* Once the handshake of a core is complete it is complete whenever no     *)
(* call is running: a call never returns in the middle of a handshake, and *)
(* never disturbs the redistributor of another core.                       *)
Settled(c) == ps[c] = ca[c]

SettledStays ==
  \A c \in Cpu : [](wcall = Idle /\ Settled(c) => [](wcall = Idle => Settled(c)))

(* When no handshake was unfinished at boot, the core is awake after       *)
(* mark_core_awake and asleep after mark_core_asleep, with Ok or with an   *)
(* error alike (init_cpu may ignore the error, as it does), and stays so   *)
(* whatever is called for other cores.                                     *)
LastCallHolds ==
  \A c \in Cpu : wlast[c] # "none" =>
    LET asleep == wlast[c] = "asleep"
    IN  ps[c] = asleep /\ ca[c] = asleep

ResultsHold == (\A c \in Cpu : Settled(c)) => []LastCallHolds

(* Every call returns: neither loop waits for an answer that never comes.  *)
CallsReturn == wcall # Idle ~> wcall = Idle
=============================================================================
