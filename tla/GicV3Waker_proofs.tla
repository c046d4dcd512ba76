-------------------------- MODULE GicV3Waker_proofs --------------------------
(***************************************************************************)
(* Proofs about GicV3Waker for every number of cores and every state of    *)
(* the registers at boot.                                                  *)
(***************************************************************************)
EXTENDS GicV3Waker, TLAPS

(* What a call read is out of date in a harmless way only: if the bit it   *)
(* is about to change still has the old value, ChildrenAsleep agrees.      *)
WriteIsSafe ==
  wcall # Idle /\ wcall.pc = "write" =>
    IF wcall.op = "awake" THEN ps[wcall.cpu] => ca[wcall.cpu]
                          ELSE ca[wcall.cpu] => ps[wcall.cpu]

(* A call that waits has asked for what it waits for.                      *)
AskedFor ==
  wcall # Idle /\ wcall.pc = "wait" => ps[wcall.cpu] = (wcall.op = "asleep")

(* Nothing is known of a core while a call is at work on it.               *)
NoneMeanwhile == wcall # Idle => wlast[wcall.cpu] = "none"

(* The inductive invariant.                                                *)
WakerIInv == WakerTypeOK /\ WriteIsSafe /\ AskedFor /\ NoneMeanwhile

-----------------------------------------------------------------------------
(* Boot states satisfy it.                                                 *)
LEMMA WakerInitIInv == WakerInit => WakerIInv
  BY DEF WakerInit, WakerIInv, WakerTypeOK, WriteIsSafe, AskedFor, NoneMeanwhile, Idle

(* Every step of a call and of a redistributor keeps it.                   *)
LEMMA WakerNextIInv == WakerIInv /\ [WakerNext]_wakerVars => WakerIInv'
<1> SUFFICES ASSUME WakerIInv, [WakerNext]_wakerVars PROVE WakerIInv'
  OBVIOUS
<1> USE DEF WakerIInv, WakerTypeOK, Idle, WakerCall, WriteIsSafe, AskedFor, NoneMeanwhile, WakerReturn
<1>1. ASSUME NEW c \in Cpu, MarkAwakeRead(c) PROVE WakerIInv'
  BY <1>1 DEF MarkAwakeRead
<1>2. ASSUME NEW c \in Cpu, MarkAwakeErr(c) PROVE WakerIInv'
  BY <1>2 DEF MarkAwakeErr
<1>3. ASSUME NEW c \in Cpu, MarkAsleepRead(c) PROVE WakerIInv'
  BY <1>3 DEF MarkAsleepRead
<1>4. ASSUME NEW c \in Cpu, MarkAsleepErr(c) PROVE WakerIInv'
  BY <1>4 DEF MarkAsleepErr
<1>5. CASE MarkAwakeWrite
  BY <1>5 DEF MarkAwakeWrite
<1>6. CASE MarkAwakeWait
  BY <1>6 DEF MarkAwakeWait
<1>7. CASE MarkAsleepWrite
  BY <1>7 DEF MarkAsleepWrite
<1>8. CASE MarkAsleepWait
  BY <1>8 DEF MarkAsleepWait
<1>9. ASSUME NEW c \in Cpu, Follow(c) PROVE WakerIInv'
  BY <1>9 DEF Follow
<1>10. CASE UNCHANGED wakerVars
  BY <1>10 DEF wakerVars
<1> QED
  BY <1>1, <1>2, <1>3, <1>4, <1>5, <1>6, <1>7, <1>8, <1>9, <1>10 DEF WakerNext, WakerDriver

(* The invariant holds in every reachable state.                           *)
THEOREM WakerInvariance == WakerSpec => []WakerIInv
  BY WakerInitIInv, WakerNextIInv, PTL DEF WakerSpec

(* Types are respected.                                                    *)
THEOREM WakerTypeCorrect == WakerSpec => []WakerTypeOK
  BY WakerInvariance, PTL DEF WakerIInv

-----------------------------------------------------------------------------
(***************************************************************************)
(* Refinement of SleepHandshake.                                           *)
(***************************************************************************)
(* The phase of every handshake.                                           *)
Phases == [c \in Cpu |-> PhaseOf(ps[c], ca[c])]

(* Every state of the bits at boot is a phase.                             *)
LEMMA InitHandshake == WakerInit => Handshake!Init
  BY DEF WakerInit, Handshake!Init, Handshake!Phase, PhaseOf

(* Every step is a step of the handshake or a stutter.                     *)
LEMMA NextHandshake == WakerIInv /\ [WakerNext]_wakerVars => [Handshake!Next]_Phases
<1> SUFFICES ASSUME WakerIInv, [WakerNext]_wakerVars
             PROVE  Handshake!Next \/ UNCHANGED Phases
  OBVIOUS
<1> USE DEF WakerIInv, WakerTypeOK, Idle, WakerCall
<1>1. CASE UNCHANGED <<ps, ca>>
  BY <1>1 DEF Phases, PhaseOf
<1>2. CASE MarkAwakeWrite
  <2>1. wcall.cpu \in Cpu /\ ps' = [ps EXCEPT ![wcall.cpu] = FALSE] /\ ca' = ca
    BY <1>2 DEF MarkAwakeWrite
  <2>2. CASE ps[wcall.cpu]
    <3>1. ca[wcall.cpu]
      BY <1>2, <2>2 DEF MarkAwakeWrite, WriteIsSafe
    <3>2. PhaseOf(ps[wcall.cpu], ca[wcall.cpu]) = "asleep"
          /\ PhaseOf(ps'[wcall.cpu], ca'[wcall.cpu]) = "waking"
      BY <2>1, <2>2, <3>1 DEF PhaseOf
    <3> DEFINE c == wcall.cpu
    <3>3. Phases' = [Phases EXCEPT ![c] = Handshake!Successor[@]]
      BY <2>1, <3>2 DEF Phases, Handshake!Successor, PhaseOf
    <3> QED
      BY <2>1, <3>3 DEF Handshake!Next, Handshake!Advance, Phases
  <2>3. CASE ~ps[wcall.cpu]
    <3>1. ps' = ps
      BY <2>1, <2>3
    <3> QED
      BY <2>1, <3>1 DEF Phases, PhaseOf
  <2> QED
    BY <2>2, <2>3
<1>3. CASE MarkAsleepWrite
  <2>1. wcall.cpu \in Cpu /\ ps' = [ps EXCEPT ![wcall.cpu] = TRUE] /\ ca' = ca
    BY <1>3 DEF MarkAsleepWrite
  <2>2. CASE ~ps[wcall.cpu]
    <3>1. ~ca[wcall.cpu]
      BY <1>3, <2>2 DEF MarkAsleepWrite, WriteIsSafe
    <3>2. PhaseOf(ps[wcall.cpu], ca[wcall.cpu]) = "awake"
          /\ PhaseOf(ps'[wcall.cpu], ca'[wcall.cpu]) = "falling"
      BY <2>1, <2>2, <3>1 DEF PhaseOf
    <3> DEFINE c == wcall.cpu
    <3>3. Phases' = [Phases EXCEPT ![c] = Handshake!Successor[@]]
      BY <2>1, <3>2 DEF Phases, Handshake!Successor, PhaseOf
    <3> QED
      BY <2>1, <3>3 DEF Handshake!Next, Handshake!Advance, Phases
  <2>3. CASE ps[wcall.cpu]
    <3>1. ps' = ps
      BY <2>1, <2>3
    <3> QED
      BY <2>1, <3>1 DEF Phases, PhaseOf
  <2> QED
    BY <2>2, <2>3
<1>4. ASSUME NEW c \in Cpu, Follow(c) PROVE Handshake!Next
  <2>1. ca[c] # ps[c] /\ ca' = [ca EXCEPT ![c] = ps[c]] /\ ps' = ps
    BY <1>4 DEF Follow
  <2>2. Phases' = [Phases EXCEPT ![c] = Handshake!Successor[@]]
    BY <2>1 DEF Phases, Handshake!Successor, PhaseOf
  <2> QED
    BY <2>2 DEF Handshake!Next, Handshake!Advance, Phases
<1> QED
  BY <1>1, <1>2, <1>3, <1>4 DEF WakerNext, WakerDriver, MarkAwakeRead, MarkAwakeErr, MarkAwakeWait,
     MarkAsleepRead, MarkAsleepErr, MarkAsleepWait, wakerVars

(* Both calls follow the handshake the comments at gicv3.rs:568 and 593    *)
(* demand, although they decide on a value that may be stale.              *)
THEOREM HandshakeRefinement == WakerSpec => ImplementsHandshake
  BY InitHandshake, NextHandshake, WakerInvariance, PTL
     DEF WakerSpec, ImplementsHandshake, Handshake!Spec, Phases

-----------------------------------------------------------------------------
(***************************************************************************)
(* Calls and complete handshakes.                                          *)
(***************************************************************************)

(* The handshake of c is complete, or the call at work on it knows.        *)
InHand(c) ==
  Settled(c) \/ (wcall # Idle /\ wcall.cpu = c /\ wcall.pc = "wait")

(* A handshake in hand stays in hand.                                      *)
LEMMA NextInHand ==
  ASSUME NEW c \in Cpu PROVE WakerIInv /\ InHand(c) /\ [WakerNext]_wakerVars => InHand(c)'
<1> SUFFICES ASSUME WakerIInv, InHand(c), [WakerNext]_wakerVars PROVE InHand(c)'
  OBVIOUS
<1> USE DEF WakerIInv, WakerTypeOK, Idle, WakerCall, InHand, Settled, AskedFor, WakerReturn
<1>1. ASSUME NEW d \in Cpu,
             MarkAwakeRead(d) \/ MarkAwakeErr(d) \/ MarkAsleepRead(d) \/ MarkAsleepErr(d)
      PROVE  InHand(c)'
  BY <1>1 DEF MarkAwakeRead, MarkAwakeErr, MarkAsleepRead, MarkAsleepErr
<1>2. CASE MarkAwakeWrite
  BY <1>2 DEF MarkAwakeWrite
<1>3. CASE MarkAwakeWait
  BY <1>3 DEF MarkAwakeWait
<1>4. CASE MarkAsleepWrite
  BY <1>4 DEF MarkAsleepWrite
<1>5. CASE MarkAsleepWait
  BY <1>5 DEF MarkAsleepWait
<1>6. ASSUME NEW d \in Cpu, Follow(d) PROVE InHand(c)'
  BY <1>6 DEF Follow
<1>7. CASE UNCHANGED wakerVars
  BY <1>7 DEF wakerVars
<1> QED
  BY <1>1, <1>2, <1>3, <1>4, <1>5, <1>6, <1>7 DEF WakerNext, WakerDriver

(* No call leaves a handshake unfinished or starts one on another core.    *)
THEOREM CallsSettle == WakerSpec => SettledStays
<1> SUFFICES ASSUME NEW c \in Cpu
             PROVE  WakerSpec => [](wcall = Idle /\ Settled(c) => [](wcall = Idle => Settled(c)))
  BY DEF SettledStays
<1>1. wcall = Idle /\ Settled(c) => InHand(c)
  BY DEF InHand
<1>2. WakerIInv /\ InHand(c) /\ [WakerNext]_wakerVars => InHand(c)'
  BY NextInHand
<1>3. InHand(c) => (wcall = Idle => Settled(c))
  BY DEF InHand
<1> QED
  BY <1>1, <1>2, <1>3, WakerInvariance, PTL DEF WakerSpec

(* Every handshake is in hand.                                             *)
AllInHand == \A c \in Cpu : InHand(c)

(* What the last calls achieved is not undone.                             *)
LEMMA NextLastCall ==
  WakerIInv /\ AllInHand /\ LastCallHolds /\ [WakerNext]_wakerVars => LastCallHolds'
<1> SUFFICES ASSUME WakerIInv, AllInHand, LastCallHolds, [WakerNext]_wakerVars,
                    NEW c \in Cpu, wlast'[c] # "none"
             PROVE  /\ ps'[c] = (wlast'[c] = "asleep")
                    /\ ca'[c] = (wlast'[c] = "asleep")
  BY DEF LastCallHolds
<1> USE DEF WakerIInv, WakerTypeOK, Idle, WakerCall, LastCallHolds, AllInHand, InHand, Settled,
            AskedFor, NoneMeanwhile, WakerReturn
<1>1. ASSUME NEW d \in Cpu, MarkAwakeErr(d) \/ MarkAsleepErr(d)
      PROVE  /\ ps'[c] = (wlast'[c] = "asleep")
             /\ ca'[c] = (wlast'[c] = "asleep")
  BY <1>1 DEF MarkAwakeErr, MarkAsleepErr
<1>2. ASSUME NEW d \in Cpu, MarkAwakeRead(d) \/ MarkAsleepRead(d)
      PROVE  /\ ps'[c] = (wlast'[c] = "asleep")
             /\ ca'[c] = (wlast'[c] = "asleep")
  BY <1>2 DEF MarkAwakeRead, MarkAsleepRead
<1>3. CASE MarkAwakeWrite \/ MarkAsleepWrite
  BY <1>3 DEF MarkAwakeWrite, MarkAsleepWrite
<1>4. CASE MarkAwakeWait
  BY <1>4 DEF MarkAwakeWait
<1>5. CASE MarkAsleepWait
  BY <1>5 DEF MarkAsleepWait
<1>6. ASSUME NEW d \in Cpu, Follow(d)
      PROVE  /\ ps'[c] = (wlast'[c] = "asleep")
             /\ ca'[c] = (wlast'[c] = "asleep")
  BY <1>6 DEF Follow
<1>7. CASE UNCHANGED wakerVars
  BY <1>7 DEF wakerVars
<1> QED
  BY <1>1, <1>2, <1>3, <1>4, <1>5, <1>6, <1>7 DEF WakerNext, WakerDriver

(* After a settled boot the core is in the state the last call asked for,  *)
(* whether that call returned Ok or an error (gicv3.rs:139).               *)
THEOREM ResultsAreTrue == WakerSpec => ResultsHold
<1>1. WakerInit /\ (\A c \in Cpu : Settled(c)) => AllInHand /\ LastCallHolds
  BY DEF WakerInit, AllInHand, InHand, LastCallHolds, Idle
<1>2. WakerIInv /\ AllInHand /\ LastCallHolds /\ [WakerNext]_wakerVars => AllInHand' /\ LastCallHolds'
  BY NextInHand, NextLastCall DEF AllInHand
<1> QED
  BY <1>1, <1>2, WakerInvariance, PTL DEF WakerSpec, ResultsHold
=============================================================================
