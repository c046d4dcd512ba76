--------------------------- MODULE SleepHandshake ---------------------------
(***************************************************************************)
(* The sleep handshake between a core and its redistributor, as both sides *)
(* may rely on it: a core goes round awake -> falling -> asleep -> waking  *)
(* -> awake, one step at a time.  The driver asks (awake -> falling,       *)
(* asleep -> waking), the redistributor answers; neither side takes back   *)
(* or repeats a step, and there is no way across.                          *)
(***************************************************************************)
CONSTANT Cpu

VARIABLE phase      \* where each core is in the handshake

Phase == {"awake", "falling", "asleep", "waking"}

Successor ==
  [awake |-> "falling", falling |-> "asleep", asleep |-> "waking", waking |-> "awake"]

Init == phase \in [Cpu -> Phase]

Advance(c) == phase' = [phase EXCEPT ![c] = Successor[@]]

Next == \E c \in Cpu : Advance(c)

Spec == Init /\ [][Next]_phase
=============================================================================
