------------------------ MODULE GicV2Delivery_proofs ------------------------
(***************************************************************************)
(* Proofs about GicV2Config and GicV2Delivery for every number of cores,   *)
(* every set of interrupts and both security states.                       *)
(***************************************************************************)
EXTENDS GicV2Delivery, SequenceTheorems, TLAPS

(* The interrupts of core me in the words that a loop has passed.          *)
PassedBy(me, word) == {l \in ReachOf(me) : l[2] \div SPI_START < word}

(* What the loop of enable_all_interrupts has still to do, and what it has *)
(* done already.                                                           *)
EnableAllProgress ==
  /\ dcall.op = "enable_all" =>
       /\ asked = enabled \cup ReachOf(dcall.me)
       /\ PassedBy(dcall.me, dcall.word) \subseteq enabled
  /\ dcall.op = "disable_all" =>
       /\ asked = enabled \ ReachOf(dcall.me)
       /\ PassedBy(dcall.me, dcall.word) \cap enabled = {}

(* What the loop of setup has passed is in group 1.                        *)
SetupProgress ==
  dcall.op = "setup" => PassedBy(dcall.me, dcall.word) \subseteq igroup1

(* The inductive invariant of the configuration calls.                     *)
ConfigIInv ==
  /\ ConfigTypeOK
  /\ EnabledAsAsked
  /\ SetupCovers
  /\ TriggerAsAsked
  /\ EnableAllProgress
  /\ SetupProgress

(* A core's software handles no interrupt twice at a time.                 *)
HandledOnce == \A c \in Cpu : IsInjective(handling[c])

(* Only an edge triggered interrupt is latched.                            *)
LatchedAreEdges == latched \subseteq edge

(* The inductive invariant.                                                *)
IInv ==
  /\ TypeOK
  /\ ConfigIInv
  /\ LatchedAreEdges
  /\ ActiveIsHandled
  /\ HandledOnce

-----------------------------------------------------------------------------
(***************************************************************************)
(* Helpers.                                                                *)
(***************************************************************************)

(* The words of the loops cover every identifier.                          *)
LEMMA WordsCover ==
  ASSUME NEW i \in Ids
  PROVE  i \div SPI_START \in 0 .. Words - 1
<1>1. SPI_START \in Nat \ {0} /\ Words \in Nat \ {0}
  BY IntIdAssumption, ConfigAssumption
<1>2. i \in Nat /\ i < SPI_START * Words
  BY <1>1 DEF Ids
<1> DEFINE q == i \div SPI_START
<1>3. q \in Nat /\ SPI_START * q <= i
  BY <1>1, <1>2
<1>4. q < Words
  <2> SUFFICES ASSUME q >= Words PROVE FALSE
    BY <1>1, <1>3
  <2>1. PICK d \in Nat : q = Words + d
    BY <1>1, <1>3
  <2>2. SPI_START * q = SPI_START * Words + SPI_START * d
    BY <1>1, <2>1
  <2>3. SPI_START * d \in Nat
    BY <1>1, <2>1
  <2> QED
    BY <1>1, <1>2, <1>3, <2>2, <2>3
<1> QED
  BY <1>1, <1>3, <1>4

(* The bank of an interrupt.                                               *)
LEMMA LineOfType ==
  ASSUME NEW i \in Ids, NEW me \in Cpu
  PROVE  <<BankOf(i, me), i>> \in Line
<1>1. Shared \notin Cpu /\ Ids \subseteq Int /\ SPI_START \in Int
  BY ConfigAssumption, IntIdAssumption DEF Shared, Cpu, Ids
<1> QED
  BY <1>1 DEF Line, BankOf, Bank

(* A write of all ones to word k reaches the existing interrupts of that   *)
(* word that the core can reach, and one word more has been passed.        *)
LEMMA WordLinesReach ==
  ASSUME NEW me \in Cpu, NEW k \in 0 .. Words
  PROVE  /\ WordLines(k, me) \subseteq ReachOf(me)
         /\ PassedBy(me, k + 1) = PassedBy(me, k) \cup WordLines(k, me)
<1>1. SPI_START \in Nat \ {0} /\ Words \in Nat \ {0} /\ Shared \notin Cpu
  BY IntIdAssumption, ConfigAssumption DEF Shared, Cpu
<1>2. WordLines(k, me) = {l \in ReachOf(me) : l[2] \div SPI_START = k}
  <2>1. \A l \in Real : l[2] \in Ids /\ ((l[1] = Shared) <=> (l[2] >= SPI_START))
    BY DEF Real, Line
  <2>2. \A l \in Real : l[1] = BankOf(l[2], me) <=> l[1] \in {me, Shared}
    BY <1>1, <2>1 DEF BankOf, Ids
  <2> QED
    BY <2>2 DEF WordLines, ReachOf
<1>3. \A l \in ReachOf(me) : l[2] \div SPI_START \in Int
  BY WordsCover DEF ReachOf, Real, Line
<1> QED
  BY <1>1, <1>2, <1>3 DEF PassedBy

(* A loop begins with nothing passed and ends with everything passed.      *)
LEMMA PassedEnds ==
  ASSUME NEW me \in Cpu
  PROVE  PassedBy(me, 0) = {} /\ PassedBy(me, Words) = ReachOf(me)
<1>1. \A l \in ReachOf(me) : l[2] \div SPI_START \in 0 .. Words - 1
  BY WordsCover DEF ReachOf, Real, Line
<1> QED
  BY <1>1, ConfigAssumption DEF PassedBy

(* set_trigger changes the trigger it is asked to change and no other.     *)
LEMMA TriggerWordKept ==
  ASSUME NEW b, NEW i
  PROVE  LET l == <<b, i>>
             bit == {l} \cap Configurable
         IN
         /\ (edge \ TriggerWord(l)) \cup ((edge \cap TriggerWord(l)) \cup bit) = edge \cup bit
         /\ (edge \ TriggerWord(l)) \cup ((edge \cap TriggerWord(l)) \ bit) = edge \ bit
<1>1. {<<b, i>>} \cap Configurable \subseteq TriggerWord(<<b, i>>)
  BY DEF TriggerWord
<1> QED
  BY <1>1

-----------------------------------------------------------------------------
(***************************************************************************)
(* The configuration calls.                                                *)
(***************************************************************************)
(* After the reset nothing is asked for and nothing is enabled.            *)
LEMMA ConfigInitIInv == ConfigInit => ConfigIInv
<1> SUFFICES ASSUME ConfigInit PROVE ConfigIInv
  OBVIOUS
<1>1. dcall = Idle /\ Idle.op = "idle" /\ 0 \in Priority /\ 0 \in Mask
  BY ConfigAssumption DEF ConfigInit, Idle
<1> QED
  BY <1>1 DEF ConfigInit, ConfigIInv, ConfigTypeOK, EnabledAsAsked, SetupCovers, TriggerAsAsked,
     EnableAllProgress, SetupProgress

(* Every configuration step keeps the invariant.                           *)
LEMMA ConfigNextIInv == ConfigIInv /\ [ConfigNext]_configVars => ConfigIInv'
<1> SUFFICES ASSUME ConfigIInv, [ConfigNext]_configVars PROVE ConfigIInv'
  OBVIOUS
<1>t. ConfigTypeOK
  BY DEF ConfigIInv
<1>i. Idle.op = "idle" /\ 0 \in Priority /\ 255 \in Mask /\ Words \in Nat \ {0}
  BY ConfigAssumption DEF Idle
<1>r. \A me \in Cpu : ReachOf(me) \subseteq Real
  BY DEF ReachOf
<1>c. dcall.op \in {"enable_all", "disable_all", "setup"} =>
        dcall \in Calls /\ dcall.me \in Cpu /\ dcall.word \in 0 .. Words
  BY <1>t, <1>i DEF ConfigTypeOK, Calls
<1> USE DEF ConfigIInv, EnabledAsAsked, SetupCovers, TriggerAsAsked,
        EnableAllProgress, SetupProgress
<1>1. ASSUME NEW i \in Ids, NEW me \in Cpu, EnableInterrupt(i, me)
      PROVE  ConfigIInv'
  <2>1. dcall = Idle /\ enabled = asked
    BY <1>1, <1>i DEF EnableInterrupt
  <2>2. enabled' \in SUBSET Real /\ enabled' = asked'
    BY <1>1, <1>t, <2>1 DEF EnableInterrupt, ConfigTypeOK
  <2>3. UNCHANGED <<igroup1, edge, priority, pmr, started, dcall, edgeAsked, prioAsked>>
    BY <1>1 DEF EnableInterrupt
  <2>4. ConfigTypeOK'
    BY <1>t, <2>2, <2>3 DEF ConfigTypeOK
  <2> QED
    BY <1>i, <2>1, <2>2, <2>3, <2>4
<1>2. ASSUME NEW i \in Ids, NEW me \in Cpu, DisableInterrupt(i, me)
      PROVE  ConfigIInv'
  <2>1. dcall = Idle /\ enabled = asked
    BY <1>2, <1>i DEF DisableInterrupt
  <2>2. enabled' \in SUBSET Real /\ enabled' = asked'
    BY <1>2, <1>t, <2>1 DEF DisableInterrupt, ConfigTypeOK
  <2>3. UNCHANGED <<igroup1, edge, priority, pmr, started, dcall, edgeAsked, prioAsked>>
    BY <1>2 DEF DisableInterrupt
  <2>4. ConfigTypeOK'
    BY <1>t, <2>2, <2>3 DEF ConfigTypeOK
  <2> QED
    BY <1>i, <2>1, <2>2, <2>3, <2>4
<1>3. ASSUME NEW i \in Ids, NEW me \in Cpu, NEW p \in Priority, SetInterruptPriority(i, me, p)
      PROVE  ConfigIInv'
  <2>1. /\ dcall = Idle /\ priority' \in [Line -> Priority]
        /\ prioAsked' \in [Line -> Priority]
        /\ UNCHANGED <<enabled, igroup1, edge, pmr, started, dcall, asked, edgeAsked>>
    BY <1>3, <1>t, <1>i DEF SetInterruptPriority, ConfigTypeOK
  <2>2. ConfigTypeOK'
    BY <1>t, <2>1 DEF ConfigTypeOK
  <2> QED
    BY <1>i, <2>1, <2>2
<1>4. ASSUME NEW i \in Ids, NEW me \in Cpu, NEW isEdge \in BOOLEAN, SetTrigger(i, me, isEdge)
      PROVE  ConfigIInv'
  <2> DEFINE l == <<BankOf(i, me), i>>
             bit == {l} \cap Configurable
  <2>1. edge' = IF isEdge THEN edge \cup bit ELSE edge \ bit
    <3>1. /\ (edge \ TriggerWord(l)) \cup ((edge \cap TriggerWord(l)) \cup bit) = edge \cup bit
          /\ (edge \ TriggerWord(l)) \cup ((edge \cap TriggerWord(l)) \ bit) = edge \ bit
      BY TriggerWordKept
    <3> QED
      BY <1>4, <3>1 DEF SetTrigger
  <2>2. edgeAsked' = IF isEdge THEN edgeAsked \cup bit ELSE edgeAsked \ bit
    BY <1>4 DEF SetTrigger
  <2>3. dcall = Idle /\ UNCHANGED <<enabled, igroup1, priority, pmr, started, dcall, asked, prioAsked>>
    BY <1>4 DEF SetTrigger
  <2>4. bit \subseteq Real
    BY DEF Configurable
  <2>5. edge' = edgeAsked' /\ edge' \in SUBSET Real
    BY <1>t, <2>1, <2>2, <2>4 DEF ConfigTypeOK
  <2>6. ConfigTypeOK'
    BY <1>t, <2>3, <2>5 DEF ConfigTypeOK
  <2> QED
    BY <1>i, <2>3, <2>5, <2>6
<1>5. ASSUME NEW me \in Cpu, NEW m \in Mask, SetPriorityMask(me, m)
      PROVE  ConfigIInv'
  <2>1. /\ dcall = Idle /\ pmr' \in [Cpu -> Mask]
        /\ UNCHANGED <<enabled, igroup1, edge, priority, started, dcall, asked, edgeAsked, prioAsked>>
    BY <1>5, <1>t DEF SetPriorityMask, ConfigTypeOK
  <2>2. ConfigTypeOK'
    BY <1>t, <2>1 DEF ConfigTypeOK
  <2> QED
    BY <1>i, <2>1, <2>2
<1>6. ASSUME NEW me \in Cpu, Setup(me)
      PROVE  ConfigIInv'
  <2>1. /\ dcall = Idle /\ dcall' = [op |-> "setup", me |-> me, word |-> 0]
        /\ UNCHANGED <<enabled, igroup1, edge, priority, pmr, started, asked, edgeAsked, prioAsked>>
    BY <1>6 DEF Setup
  <2>2. dcall' \in Calls
    BY <1>i, <2>1 DEF Calls
  <2>3. ConfigTypeOK'
    BY <1>t, <2>1, <2>2 DEF ConfigTypeOK
  <2> QED
    BY <1>i, <2>1, <2>3, PassedEnds
<1>7. ASSUME NEW me \in Cpu, NEW enable \in BOOLEAN, EnableAll(me, enable)
      PROVE  ConfigIInv'
  <2>1. /\ dcall = Idle /\ enabled = asked
        /\ dcall' = [op |-> IF enable THEN "enable_all" ELSE "disable_all", me |-> me, word |-> 0]
        /\ asked' = IF enable THEN asked \cup ReachOf(me) ELSE asked \ ReachOf(me)
        /\ UNCHANGED <<enabled, igroup1, edge, priority, pmr, started, edgeAsked, prioAsked>>
    BY <1>7, <1>i DEF EnableAll
  <2>2. dcall' \in Calls
    BY <1>i, <2>1 DEF Calls
  <2>3. ConfigTypeOK'
    BY <1>t, <1>r, <2>1, <2>2 DEF ConfigTypeOK
  <2>4. EnableAllProgress'
    BY <2>1, PassedEnds
  <2> QED
    BY <2>1, <2>3, <2>4
<1>8. CASE EnableAllWord
  <2> DEFINE me == dcall.me
             k == dcall.word
             bits == WordLines(k, me)
  <2>1. /\ dcall.op \in {"enable_all", "disable_all"}
        /\ dcall \in Calls /\ me \in Cpu /\ k \in 0 .. Words - 1
    BY <1>8, <1>c, <1>i DEF EnableAllWord
  <2>2. /\ enabled' = IF dcall.op = "enable_all" THEN enabled \cup bits ELSE enabled \ bits
        /\ dcall' = [dcall EXCEPT !.word = @ + 1]
        /\ UNCHANGED <<igroup1, edge, priority, pmr, started, asked, edgeAsked, prioAsked>>
    BY <1>8 DEF EnableAllWord
  <2>3. dcall' \in Calls /\ dcall'.op = dcall.op /\ dcall'.me = me /\ dcall'.word = k + 1
    BY <1>i, <2>1, <2>2 DEF Calls
  <2>4. /\ bits \subseteq ReachOf(me)
        /\ PassedBy(me, k + 1) = PassedBy(me, k) \cup bits
    BY <1>i, <2>1, WordLinesReach
  <2>5. ConfigTypeOK'
    BY <1>t, <1>r, <2>1, <2>2, <2>3, <2>4 DEF ConfigTypeOK
  <2>6. EnableAllProgress'
    BY <2>1, <2>2, <2>3, <2>4
  <2> QED
    BY <2>1, <2>2, <2>3, <2>5, <2>6
<1>9. CASE EnableAllReturn
  <2>1. /\ dcall.op \in {"enable_all", "disable_all"} /\ dcall.me \in Cpu
        /\ dcall.word = Words /\ dcall' = Idle
        /\ UNCHANGED <<enabled, igroup1, edge, priority, pmr, started, asked, edgeAsked, prioAsked>>
    BY <1>9, <1>c DEF EnableAllReturn
  <2>2. enabled = asked
    BY <2>1, PassedEnds
  <2>3. ConfigTypeOK'
    BY <1>t, <2>1 DEF ConfigTypeOK
  <2> QED
    BY <1>i, <2>1, <2>2, <2>3
<1>10. CASE SetupWord
  <2> DEFINE me == dcall.me
             k == dcall.word
             bits == WordLines(k, me)
  <2>1. /\ dcall.op = "setup" /\ dcall \in Calls /\ me \in Cpu /\ k \in 0 .. Words - 1
    BY <1>10, <1>c, <1>i DEF SetupWord
  <2>2. /\ igroup1' = igroup1 \cup bits
        /\ dcall' = [dcall EXCEPT !.word = @ + 1]
        /\ UNCHANGED <<enabled, edge, priority, pmr, started, asked, edgeAsked, prioAsked>>
    BY <1>10 DEF SetupWord
  <2>3. dcall' \in Calls /\ dcall'.op = "setup" /\ dcall'.me = me /\ dcall'.word = k + 1
    BY <1>i, <2>1, <2>2 DEF Calls
  <2>4. /\ bits \subseteq ReachOf(me)
        /\ PassedBy(me, k + 1) = PassedBy(me, k) \cup bits
    BY <1>i, <2>1, WordLinesReach
  <2>5. ConfigTypeOK'
    BY <1>t, <1>r, <2>1, <2>2, <2>3, <2>4 DEF ConfigTypeOK
  <2>6. SetupProgress'
    BY <2>1, <2>2, <2>3, <2>4
  <2> QED
    BY <2>1, <2>2, <2>3, <2>5, <2>6
<1>11. CASE SetupReturn
  <2>1. /\ dcall.op = "setup" /\ dcall.me \in Cpu /\ dcall.word = Words /\ dcall' = Idle
        /\ pmr' = [pmr EXCEPT ![dcall.me] = 255]
        /\ started' = started \cup {dcall.me}
        /\ UNCHANGED <<enabled, igroup1, edge, priority, asked, edgeAsked, prioAsked>>
    BY <1>11, <1>c DEF SetupReturn
  <2>2. ReachOf(dcall.me) \subseteq igroup1
    BY <2>1, PassedEnds
  <2>3. ConfigTypeOK'
    BY <1>t, <1>i, <2>1 DEF ConfigTypeOK
  <2> QED
    BY <1>i, <2>1, <2>2, <2>3
<1>12. CASE UNCHANGED configVars
  <2>1. ConfigTypeOK'
    BY <1>t, <1>12 DEF ConfigTypeOK, configVars
  <2> QED
    BY <1>12, <2>1 DEF configVars
<1> QED
  BY <1>1, <1>2, <1>3, <1>4, <1>5, <1>6, <1>7, <1>8, <1>9, <1>10, <1>11, <1>12
     DEF ConfigNext, LoopCall, LoopStep

-----------------------------------------------------------------------------
(***************************************************************************)
(* Delivery.                                                               *)
(***************************************************************************)

(* An interrupt pushed on the stack of the software is handled from then   *)
(* on, and once if it was not handled before.                              *)
LEMMA StackPush ==
  ASSUME NEW S, NEW s \in Seq(S), IsInjective(s), NEW e \in S, e \notin ToSet(s)
  PROVE  /\ Append(s, e) \in Seq(S) /\ Len(Append(s, e)) = Len(s) + 1
         /\ ToSet(Append(s, e)) = ToSet(s) \cup {e}
         /\ IsInjective(Append(s, e))
<1> DEFINE t == Append(s, e)
<1>1. /\ t \in Seq(S) /\ Len(t) = Len(s) + 1 /\ Len(s) \in Nat
      /\ DOMAIN s = 1 .. Len(s) /\ DOMAIN t = 1 .. Len(s) + 1
  OBVIOUS
<1>2. t[Len(s) + 1] = e /\ \A i \in 1 .. Len(s) : t[i] = s[i]
  OBVIOUS
<1>3. ToSet(t) = ToSet(s) \cup {e}
  BY <1>1, <1>2 DEF ToSet
<1>4. IsInjective(t)
  BY <1>1, <1>2 DEF IsInjective, ToSet
<1> QED
  BY <1>1, <1>3, <1>4

(* One popped is handled no more.                                          *)
LEMMA StackPop ==
  ASSUME NEW S, NEW s \in Seq(S), IsInjective(s), s # <<>>
  PROVE  /\ Front(s) \in Seq(S) /\ Len(Front(s)) = Len(s) - 1
         /\ ToSet(Front(s)) = ToSet(s) \ {Last(s)}
         /\ IsInjective(Front(s))
<1> DEFINE t == Front(s)
           n == Len(s) - 1
<1>1. Len(s) \in Nat \ {0} /\ DOMAIN s = 1 .. Len(s) /\ \A i \in 1 .. Len(s) : s[i] \in S
  BY EmptySeq, LenProperties, ElementOfSeq
<1>2. t \in Seq(S) /\ Len(t) = n /\ \A i \in 1 .. n : t[i] = s[i]
  <2>1. 1 \in Int /\ n \in Int /\ \A i \in 1 .. n : s[i] \in S
    BY <1>1
  <2>2. /\ SubSeq(s, 1, n) \in Seq(S)
        /\ Len(SubSeq(s, 1, n)) = IF 1 <= n THEN n - 1 + 1 ELSE 0
        /\ \A i \in 1 .. n - 1 + 1 : SubSeq(s, 1, n)[i] = s[1 + i - 1]
    BY ONLY <2>1, SubSeqProperties
  <2> QED
    BY <1>1, <2>2 DEF Front
<1>3. DOMAIN t = 1 .. n
  BY <1>2, LenProperties
<1>4. ToSet(t) = ToSet(s) \ {Last(s)}
  <2>1. ToSet(s) = {s[i] : i \in 1 .. n} \cup {s[Len(s)]}
    BY <1>1 DEF ToSet
  <2>2. s[Len(s)] \notin {s[i] : i \in 1 .. n}
    BY <1>1 DEF IsInjective
  <2>3. ToSet(t) = {s[i] : i \in 1 .. n}
    BY <1>2, <1>3 DEF ToSet
  <2> QED
    BY <2>1, <2>2, <2>3 DEF Last
<1>5. IsInjective(t)
  BY <1>1, <1>2, <1>3 DEF IsInjective
<1> QED
  BY <1>2, <1>4, <1>5

(* What a core may be signalled is one of the numbers in use, and neither  *)
(* active there nor handled.                                               *)
LEMMA SignalledFacts ==
  ASSUME IInv, NEW c \in Cpu, NEW v \in Signalled(c)
  PROVE  /\ v \in SgiNumber \cup Peripheral
         /\ v \notin active[c]
         /\ v \notin ToSet(handling[c])
<1>1. v \in SgiNumber \cup Peripheral
  BY DEF Signalled, Pending, IInv, TypeOK
<1>2. v \notin active[c]
  BY DEF Signalled, ActiveLines
<1> QED
  BY <1>1, <1>2 DEF IInv, ActiveIsHandled

(* At the reset nothing is active and nothing is handled.                  *)
LEMMA InitIInv == Init => IInv
<1> SUFFICES ASSUME Init PROVE IInv
  OBVIOUS
<1>1. ConfigIInv
  BY ConfigInitIInv DEF Init
<1>2. \A c \in Cpu : handling[c] = <<>> /\ active[c] = {}
  BY DEF Init
<1>3. TypeOK
  BY <1>1, <1>2, DeliveryAssumption DEF Init, TypeOK, ConfigIInv
<1>4. ActiveIsHandled /\ HandledOnce
  BY <1>2 DEF ActiveIsHandled, HandledOnce, ToSet, IsInjective
<1>5. LatchedAreEdges
  BY DEF Init, LatchedAreEdges
<1> QED
  BY <1>1, <1>3, <1>4, <1>5 DEF IInv

(* set_trigger changes the trigger of no interrupt that is pending.        *)
LEMMA QuietTrigger ==
  ASSUME IInv, NEW c \in Cpu, NEW i \in Implemented, NEW isEdge \in BOOLEAN,
         LineOf(i, c) \notin latched, SetTrigger(i, c, isEdge)
  PROVE  latched \subseteq edge'
<1> DEFINE l == <<BankOf(i, c), i>>
<1>1. i \in Nat
  BY ConfigAssumption, IntIdAssumption DEF Ids
<1>2. l \notin latched
  <2>1. CASE i < 1024
    BY <1>1, <2>1 DEF LineOf, IdOf
  <2>2. CASE ~(i < 1024)
    <3>1. i \notin Peripheral
      BY <1>1, <2>2, DeliveryAssumption, IntIdAssumption
    <3> QED
      BY <3>1 DEF IInv, TypeOK, Wire
  <2> QED
    BY <2>1, <2>2
<1>3. edge \ {l} \subseteq edge'
  <2>1. edge' = edge \cup ({l} \cap Configurable) \/ edge' = edge \ ({l} \cap Configurable)
    BY TriggerWordKept DEF SetTrigger
  <2> QED
    BY <2>1
<1> QED
  BY <1>2, <1>3 DEF IInv, LatchedAreEdges

(* Every step keeps the invariant.                                         *)
LEMMA NextIInv == IInv /\ [Next]_vars => IInv'
<1> SUFFICES ASSUME IInv, [Next]_vars PROVE IInv'
  OBVIOUS
<1> USE DEF IInv
<1>1. ASSUME [ConfigNext]_configVars, UNCHANGED <<signals, active, handling>>,
             latched \subseteq edge'
      PROVE  IInv'
  <2>1. ConfigIInv'
    BY <1>1, ConfigNextIInv
  <2>2. TypeOK' /\ ActiveIsHandled' /\ HandledOnce' /\ LatchedAreEdges'
    BY <1>1, <2>1 DEF signals, TypeOK, ConfigIInv, ActiveIsHandled, HandledOnce, LatchedAreEdges
  <2> QED
    BY <2>1, <2>2
<1>2. ASSUME UNCHANGED configVars
      PROVE  ConfigIInv' /\ edge' = edge
  BY <1>2, ConfigNextIInv DEF configVars
<1>3. ASSUME NEW c \in Cpu, NEW i \in Sgi, NEW target \in SgiInput, SendSgi(c, i, target)
      PROVE  IInv'
  <2>1. ConfigIInv' /\ UNCHANGED <<edge, raised, latched, active, handling>>
    BY <1>2, <1>3 DEF SendSgi
  <2>2. Aiar(i, c) \in SgiNumber
    BY DEF SgiNumber
  <2>3. sgis' \in [Cpu -> SUBSET SgiNumber]
    BY <1>3, <2>2 DEF SendSgi, TypeOK
  <2> QED
    BY <2>1, <2>3 DEF TypeOK, ConfigIInv, ActiveIsHandled, HandledOnce, LatchedAreEdges
<1>4. ASSUME NEW c \in Cpu, GetAndAcknowledgeInterrupt(c)
      PROVE  IInv'
  <2>1. PICK v \in Signalled(c) :
          /\ sgis' = [sgis EXCEPT ![c] = @ \ {v}]
          /\ latched' = latched \ {LineOf(v, c)}
          /\ active' = [active EXCEPT ![c] = @ \cup {v}]
          /\ handling' = [handling EXCEPT ![c] = Append(@, v)]
    BY <1>4 DEF GetAndAcknowledgeInterrupt
  <2>2. ConfigIInv' /\ UNCHANGED <<edge, raised>> /\ Len(handling[c]) < MaxNesting
    BY <1>2, <1>4 DEF GetAndAcknowledgeInterrupt
  <2>3. v \in (SgiNumber \cup Peripheral) \ ToSet(handling[c])
    BY SignalledFacts
  <2>4. handling[c] \in Seq(SgiNumber \cup Peripheral) /\ IsInjective(handling[c])
        /\ Len(handling[c]) \in Nat /\ MaxNesting \in Nat
    BY LenProperties, DeliveryAssumption DEF TypeOK, HandledOnce
  <2>5. /\ handling'[c] \in Seq(SgiNumber \cup Peripheral)
        /\ Len(handling'[c]) = Len(handling[c]) + 1
        /\ ToSet(handling'[c]) = ToSet(handling[c]) \cup {v}
        /\ IsInjective(handling'[c])
    <3>1. handling'[c] = Append(handling[c], v)
      BY <2>1 DEF TypeOK
    <3> QED
      BY <2>3, <2>4, <3>1, StackPush
  <2>6. \A d \in Cpu : d # c => handling'[d] = handling[d] /\ active'[d] = active[d]
    BY <2>1 DEF TypeOK
  <2>7. handling' \in [Cpu -> Seq(SgiNumber \cup Peripheral)]
    BY <2>1, <2>5 DEF TypeOK
  <2>8. \A d \in Cpu : Len(handling'[d]) <= MaxNesting
    BY <2>2, <2>4, <2>5, <2>6 DEF TypeOK
  <2>9. TypeOK'
    BY <2>1, <2>2, <2>3, <2>7, <2>8 DEF TypeOK, ConfigIInv
  <2>10. ActiveIsHandled'
    BY <2>1, <2>5, <2>6 DEF TypeOK, ActiveIsHandled
  <2>11. HandledOnce'
    BY <2>5, <2>6 DEF HandledOnce
  <2>12. LatchedAreEdges'
    BY <2>1, <2>2 DEF LatchedAreEdges
  <2> QED
    BY <2>2, <2>9, <2>10, <2>11, <2>12
<1>5. ASSUME NEW c \in Cpu, EndInterrupt(c)
      PROVE  IInv'
  <2>1. /\ handling[c] # <<>>
        /\ active' = [active EXCEPT ![c] = @ \ {Last(handling[c])}]
        /\ handling' = [handling EXCEPT ![c] = Front(@)]
        /\ ConfigIInv' /\ UNCHANGED <<edge, sgis, raised, latched>>
    BY <1>2, <1>5 DEF EndInterrupt, signals
  <2>2. handling[c] \in Seq(SgiNumber \cup Peripheral) /\ IsInjective(handling[c])
        /\ Len(handling[c]) \in Nat /\ MaxNesting \in Nat
    BY LenProperties, DeliveryAssumption DEF TypeOK, HandledOnce
  <2>3. /\ handling'[c] \in Seq(SgiNumber \cup Peripheral)
        /\ Len(handling'[c]) = Len(handling[c]) - 1
        /\ ToSet(handling'[c]) = ToSet(handling[c]) \ {Last(handling[c])}
        /\ IsInjective(handling'[c])
    <3>1. handling'[c] = Front(handling[c])
      BY <2>1 DEF TypeOK
    <3> QED
      BY <2>1, <2>2, <3>1, StackPop
  <2>4. \A d \in Cpu : d # c => handling'[d] = handling[d] /\ active'[d] = active[d]
    BY <2>1 DEF TypeOK
  <2>5. handling' \in [Cpu -> Seq(SgiNumber \cup Peripheral)]
    BY <2>1, <2>3 DEF TypeOK
  <2>6. \A d \in Cpu : Len(handling'[d]) <= MaxNesting
    BY <2>2, <2>3, <2>4 DEF TypeOK
  <2>7. TypeOK'
    BY <2>1, <2>5, <2>6 DEF TypeOK, ConfigIInv
  <2>8. ActiveIsHandled'
    BY <2>1, <2>3, <2>4 DEF TypeOK, ActiveIsHandled
  <2>9. HandledOnce'
    BY <2>3, <2>4 DEF HandledOnce
  <2> QED
    BY <2>1, <2>7, <2>8, <2>9 DEF LatchedAreEdges
<1>6. ASSUME NEW c \in Cpu, Configure(c)
      PROVE  IInv'
  <2>1. Implemented \subseteq Ids
    BY ConfigAssumption
  <2>2. ConfigNext
    BY <1>6, <2>1 DEF Configure, ConfigNext
  <2>3. latched \subseteq edge'
    <3>1. CASE edge' = edge
      BY <3>1 DEF LatchedAreEdges
    <3>2. ASSUME NEW i \in Implemented, NEW isEdge \in BOOLEAN,
                 LineOf(i, c) \notin latched, SetTrigger(i, c, isEdge)
          PROVE  latched \subseteq edge'
      BY <3>2, QuietTrigger
    <3> QED
      BY <1>6, <3>1, <3>2 DEF Configure, EnableInterrupt, DisableInterrupt, SetInterruptPriority,
         SetPriorityMask
  <2> QED
    BY <1>1, <1>6, <2>2, <2>3 DEF Configure
<1>7. CASE ConfigureAll
  <2>1. ConfigNext
    BY <1>7 DEF ConfigureAll, ConfigNext
  <2>2. edge' = edge
    BY <1>7 DEF ConfigureAll, LoopStep, LoopCall, Setup, EnableAll, EnableAllWord, EnableAllReturn,
       SetupWord, SetupReturn
  <2> QED
    BY <1>1, <1>7, <2>1, <2>2 DEF ConfigureAll, LatchedAreEdges
<1>8. ASSUME NEW l \in Wire, Raise(l) \/ Lower(l)
      PROVE  IInv'
  <2>1. ConfigIInv' /\ UNCHANGED <<edge, sgis, active, handling>>
    BY <1>2, <1>8 DEF Raise, Lower
  <2>2. raised' \in SUBSET Wire /\ latched' \in SUBSET Wire
    BY <1>8 DEF Raise, Lower, TypeOK
  <2>3. LatchedAreEdges'
    BY <1>8, <2>1 DEF Raise, Lower, LatchedAreEdges
  <2> QED
    BY <2>1, <2>2, <2>3 DEF TypeOK, ConfigIInv, ActiveIsHandled, HandledOnce
<1>9. CASE UNCHANGED vars
  BY <1>1, <1>9 DEF vars, configVars, signals, LatchedAreEdges
<1> QED
  BY <1>3, <1>4, <1>5, <1>6, <1>7, <1>8, <1>9 DEF Next

-----------------------------------------------------------------------------
(* The invariant holds in every reachable state.                           *)
THEOREM Invariance == Spec => []IInv
  BY InitIInv, NextIInv, PTL DEF Spec

(* Types are respected.                                                    *)
THEOREM TypeCorrect == Spec => []TypeOK
  BY Invariance, PTL DEF IInv

(* Outside enable_all_interrupts exactly the interrupts are enabled that   *)
(* were last asked to be, whichever cores the calls ran on                 *)
(* (gicv2.rs:60-97).                                                       *)
THEOREM Enables == Spec => []EnabledAsAsked
  BY Invariance, PTL DEF IInv, ConfigIInv

(* setup leaves no interrupt its core can get outside group 1              *)
(* (gicv2.rs:49-57).                                                       *)
THEOREM SetupReaches == Spec => []SetupCovers
  BY Invariance, PTL DEF IInv, ConfigIInv

(* set_trigger changes the one trigger of the word it rewrites             *)
(* (gicv2.rs:119-132).                                                     *)
THEOREM Triggers == Spec => []TriggerAsAsked
  BY Invariance, PTL DEF IInv, ConfigIInv

(* An interrupt is active from its acknowledgement to its end and no       *)
(* longer, however the handlers of the cores nest and whatever other       *)
(* calls run in between (gicv2.rs:161-174).                                *)
THEOREM ActiveHandled == Spec => []ActiveIsHandled
  BY Invariance, PTL DEF IInv

(* An SGI for a list reaches the cores meant, in both security states      *)
(* (gicv2.rs:135-156).                                                     *)
THEOREM SgiListsReach == Spec => []ListsReach
<1>1. IInv => ListsReach
  <2> SUFFICES ASSUME IInv, NEW me \in Cpu, NEW i \in Sgi, NEW target \in SgiTarget \ {All},
                      NEW c \in started
               PROVE  c \in Forwarded(me, i, SgiValue(target))
                        <=> c \in Listed(me, target.target_list_filter, target.target_list)
    BY DEF ListsReach
  <2>1. /\ SgiValue(target).nsatt = TRUE
        /\ SgiValue(target).filter = target.target_list_filter
        /\ SgiValue(target).list = target.target_list
    BY DEF SgiValue
  <2>2. c \in Cpu /\ i \in Implemented /\ i \in Nat /\ i < SPI_START /\ i < 1024
    BY DeliveryAssumption, IntIdAssumption DEF IInv, TypeOK, ConfigTypeOK
  <2>3. LineOf(i, c) = <<c, i>>
    BY <2>2 DEF LineOf, IdOf, BankOf
  <2>4. <<c, i>> \in Real
    BY <2>2, LineOfType, ConfigAssumption DEF Real, BankOf
  <2>5. LineOf(i, c) \in igroup1
    BY <2>3, <2>4 DEF IInv, ConfigIInv, SetupCovers, ReachOf
  <2> QED
    BY <2>1, <2>5 DEF Forwarded
<1> QED
  BY <1>1, Invariance, PTL

(* Only the acknowledgement of its interrupt clears a latched edge.        *)
LEMMA ClearingTakes ==
  ASSUME IInv, Next, NEW l \in latched, l \notin latched'
  PROVE  Takes(l)
<1>1. PICK c \in Cpu : GetAndAcknowledgeInterrupt(c)
  BY DEF Next, SendSgi, EndInterrupt, Configure, ConfigureAll, Raise, Lower, signals
<1>2. PICK v \in Signalled(c) :
        /\ latched' = latched \ {LineOf(v, c)}
        /\ active' = [active EXCEPT ![c] = @ \cup {v}]
  BY <1>1 DEF GetAndAcknowledgeInterrupt
<1>3. v \in active'[c] \ active[c]
  BY <1>2, SignalledFacts DEF IInv, TypeOK
<1> QED
  BY <1>2, <1>3 DEF Takes

(* An edge stays pending until a core takes it, whatever triggers, enables *)
(* and groups are set meanwhile, and a level does not outlive its line     *)
(* (gicv2.rs:119-132, 161-168).                                            *)
THEOREM EdgesArrive == Spec => NoEdgeLost
<1> DEFINE Step == \A l \in Wire :
                     /\ l \in edgeAsked /\ l \in PendingLines /\ ~Takes(l) => l \in PendingLines'
                     /\ l \notin edgeAsked /\ l \notin raised' => l \notin PendingLines'
<1>1. IInv /\ [Next]_vars => [Step]_vars
  <2> SUFFICES ASSUME IInv, Next PROVE Step
    OBVIOUS
  <2>1. edge = edgeAsked /\ latched \subseteq edge
    BY DEF IInv, ConfigIInv, TriggerAsAsked, LatchedAreEdges
  <2>2. ASSUME NEW l \in Wire, l \in edgeAsked, l \in PendingLines, ~Takes(l)
        PROVE  l \in PendingLines'
    BY <2>1, <2>2, ClearingTakes DEF PendingLines
  <2>3. ASSUME NEW l \in Wire, l \notin edgeAsked, l \notin raised'
        PROVE  l \notin PendingLines'
    <3>1. l \notin latched'
      BY <2>1, <2>3 DEF Next, SendSgi, GetAndAcknowledgeInterrupt, EndInterrupt, Configure,
           ConfigureAll, Raise, Lower, signals
    <3> QED
      BY <2>3, <3>1 DEF PendingLines
  <2> QED
    BY <2>2, <2>3
<1> QED
  BY <1>1, Invariance, PTL DEF Spec, NoEdgeLost
=============================================================================
